---- MODULE Spec2Model ----
(***************************************************************************)
(* PO validation pipeline of pdf_uploader (src/app/po_validator):          *)
(* validate() with the extraction orchestrator extract_po_data(), the      *)
(* tier-1 parser extract_with_pdfplumber() and the tier-2 vision fallback  *)
(* extract_with_llm().                                                     *)
(*                                                                         *)
(* Strings are sequences of one-character strings.  Prices are decimal     *)
(* amounts in cents as printed on the PO or sent by Qualer; float() of an  *)
(* amount is the IEEE-754 binary64 nearest to cents/100, kept as a bit     *)
(* string m (most significant bit first) times 2^x, and subtraction and    *)
(* comparison are computed on those bit strings as the hardware does.      *)
(*                                                                         *)
(* A document is one page.  Record fields that no modelled decision reads  *)
(* (po_number, quantity, page_number, bbox, comment, timestamp, notes,     *)
(* document_name, service_order_id) are left out of the records.           *)
(***************************************************************************)
EXTENDS Integers, Sequences, FiniteSets, TLC

\* ------------------------------------------------------------------------
\* Bounds of the model
\* ------------------------------------------------------------------------
MaxWorkItems == 2
NumWorkers == 2
MaxSaves == 3

\* ------------------------------------------------------------------------
\* None
\* ------------------------------------------------------------------------
NoStr == <<"None">>
NoPrice == -1

Truthy(s) == s # NoStr /\ s # <<>>
OrEmpty(s) == IF Truthy(s) THEN s ELSE <<>>

MinOf(a, b) == IF a <= b THEN a ELSE b
MaxOf(a, b) == IF a >= b THEN a ELSE b

\* ------------------------------------------------------------------------
\* str methods
\* ------------------------------------------------------------------------
LowerAlpha == <<"a", "b", "c", "d", "e", "f", "g", "h", "i", "j", "k", "l", "m", "n", "o", "p", "q", "r", "s", "t", "u", "v", "w", "x", "y", "z">>
UpperAlpha == <<"A", "B", "C", "D", "E", "F", "G", "H", "I", "J", "K", "L", "M", "N", "O", "P", "Q", "R", "S", "T", "U", "V", "W", "X", "Y", "Z">>
Whitespace == {" ", "\t", "\n"}

MapChar(ch, from, to) ==
    IF \E i \in 1..Len(from) : from[i] = ch
    THEN to[CHOOSE i \in 1..Len(from) : from[i] = ch]
    ELSE ch

upper(s) == [i \in 1..Len(s) |-> MapChar(s[i], LowerAlpha, UpperAlpha)]
lower(s) == [i \in 1..Len(s) |-> MapChar(s[i], UpperAlpha, LowerAlpha)]

IsRemoved(ch) == ch \in {"-", " "}
NotRemoved(ch) == ~IsRemoved(ch)

\* s.strip()
strip(s) ==
    IF \A i \in 1..Len(s) : s[i] \in Whitespace THEN <<>>
    ELSE LET f == CHOOSE i \in 1..Len(s) :
                     s[i] \notin Whitespace /\ \A j \in 1..(i - 1) : s[j] \in Whitespace
             l == CHOOSE i \in 1..Len(s) :
                     s[i] \notin Whitespace /\ \A j \in (i + 1)..Len(s) : s[j] \in Whitespace
         IN SubSeq(s, f, l)

\* s.lstrip("0")
lstrip0(s) ==
    IF \A i \in 1..Len(s) : s[i] = "0" THEN <<>>
    ELSE LET f == CHOOSE i \in 1..Len(s) : s[i] # "0" /\ \A j \in 1..(i - 1) : s[j] = "0"
         IN SubSeq(s, f, Len(s))

\* a in b
Contains(b, a) ==
    \E i \in 0..(Len(b) - Len(a)) : \A j \in 1..Len(a) : b[i + j] = a[j]

\* re.sub(r"\s*\([^)]*\)", "", s): every leftmost parenthetical group, with
\* the white space before it, is removed
RECURSIVE StripParen(_)
StripParen(s) ==
    IF ~\E i \in 1..Len(s) : s[i] = "(" /\ \E j \in (i + 1)..Len(s) : s[j] = ")"
    THEN s
    ELSE LET o == CHOOSE i \in 1..Len(s) :
                     /\ s[i] = "(" /\ \E j \in (i + 1)..Len(s) : s[j] = ")"
                     /\ \A k \in 1..(i - 1) :
                            ~(s[k] = "(" /\ \E j \in (k + 1)..Len(s) : s[j] = ")")
             c == CHOOSE j \in (o + 1)..Len(s) :
                     s[j] = ")" /\ \A k \in (o + 1)..(j - 1) : s[k] # ")"
             w == CHOOSE i \in 1..o :
                     /\ \A k \in i..(o - 1) : s[k] \in Whitespace
                     /\ (i = 1 \/ s[i - 1] \notin Whitespace)
         IN SubSeq(s, 1, w - 1) \o StripParen(SubSeq(s, c + 1, Len(s)))

\* ------------------------------------------------------------------------
\* float: IEEE-754 binary64
\* ------------------------------------------------------------------------
MantBits == 53

RECURSIVE BinOf(_)
BinOf(n) == IF n = 0 THEN <<>> ELSE Append(BinOf(n \div 2), n % 2)

Zeros(n) == [i \in 1..n |-> 0]

StripLeadingZeros(b) ==
    IF \A i \in 1..Len(b) : b[i] = 0 THEN <<>>
    ELSE LET f == CHOOSE i \in 1..Len(b) : b[i] = 1 /\ \A j \in 1..(i - 1) : b[j] = 0
         IN SubSeq(b, f, Len(b))

\* b + 1 on a bit string (one bit longer when b is all ones)
BitsInc(b) ==
    IF \A i \in 1..Len(b) : b[i] = 1 THEN <<1>> \o Zeros(Len(b))
    ELSE LET p == CHOOSE i \in 1..Len(b) : b[i] = 0 /\ \A j \in (i + 1)..Len(b) : b[j] = 1
         IN [i \in 1..Len(b) |-> IF i < p THEN b[i] ELSE IF i = p THEN 1 ELSE 0]

\* round-half-even of the exact bit string b (times 2^x) to MantBits
\* significant bits; sticky says that non-zero digits follow b
RoundBits(b, x, sticky) ==
    IF Len(b) <= MantBits THEN [m |-> b, x |-> x]
    ELSE LET keep  == SubSeq(b, 1, MantBits)
             guard == b[MantBits + 1]
             rest  == sticky \/ \E i \in (MantBits + 2)..Len(b) : b[i] = 1
             up    == guard = 1 /\ (rest \/ keep[MantBits] = 1)
             k     == IF up THEN BitsInc(keep) ELSE keep
             nx    == x + (Len(b) - MantBits)
         IN IF Len(k) > MantBits
            THEN [m |-> SubSeq(k, 1, MantBits), x |-> nx + 1]
            ELSE [m |-> k, x |-> nx]

RECURSIVE Pow2Mod100(_)
Pow2Mod100(i) ==
    IF i = 0 THEN 1
    ELSE LET h == Pow2Mod100(i \div 2)
         IN (h * h * (IF i % 2 = 1 THEN 2 ELSE 1)) % 100

\* the remainder of r0/100 after i binary digits, and the i-th digit
FracRem(r0, i) == (r0 * Pow2Mod100(i)) % 100
FracDigit(r0, i) == (2 * FracRem(r0, i - 1)) \div 100

\* float("<cents/100>"): the binary64 nearest to the decimal amount
FloatOfCents(c) ==
    IF c = 0 THEN [m |-> <<>>, x |-> 0]
    ELSE LET ib == BinOf(c \div 100)
             r0 == c % 100
             lead == IF ib # <<>> THEN 0
                     ELSE (CHOOSE i \in 1..7 : FracDigit(r0, i) = 1
                              /\ \A j \in 1..(i - 1) : FracDigit(r0, j) = 0) - 1
             nfrac == lead + MantBits + 1 - Len(ib)
             bits == ib \o [i \in 1..nfrac |-> FracDigit(r0, i)]
         IN RoundBits(StripLeadingZeros(bits), 0 - nfrac, FracRem(r0, nfrac) # 0)

\* the digits of f written at exponent x (x <= f.x); left padding to n digits
AlignTo(f, x) == f.m \o Zeros(f.x - x)
PadTo(b, n) == Zeros(n - Len(b)) \o b

BitsLess(a, b) ==
    \E i \in 1..Len(a) : a[i] < b[i] /\ \A j \in 1..(i - 1) : a[j] = b[j]

\* a - b for bit strings of one length with a >= b
BitsSub(a, b) ==
    LET n == Len(a)
        borrow(i) == \E j \in (i + 1)..n :
                        a[j] < b[j] /\ \A k \in (i + 1)..(j - 1) : a[k] = b[k]
    IN [i \in 1..n |-> (a[i] - b[i] - (IF borrow(i) THEN 1 ELSE 0) + 2) % 2]

\* |a| < |b| and |a| <= |b|
MagLess(a, b) ==
    LET x == MinOf(a.x, b.x)
        aa == AlignTo(a, x)
        bb == AlignTo(b, x)
        n == MaxOf(Len(aa), Len(bb))
    IN BitsLess(PadTo(aa, n), PadTo(bb, n))

MagLeq(a, b) == ~MagLess(b, a)

\* a - b of two non-negative binary64 values: sign and rounded magnitude
FloatSub(a, b) ==
    LET x == MinOf(a.x, b.x)
        aa == AlignTo(a, x)
        bb == AlignTo(b, x)
        n == MaxOf(Len(aa), Len(bb))
        pa == PadTo(aa, n)
        pb == PadTo(bb, n)
        neg == BitsLess(pa, pb)
        d == IF neg THEN BitsSub(pb, pa) ELSE BitsSub(pa, pb)
        r == RoundBits(StripLeadingZeros(d), x, FALSE)
    IN [neg |-> neg, m |-> r.m, x |-> r.x]

\* a + b for bit strings of one length (the sum fits)
BitsAdd(a, b) ==
    LET n == Len(a)
        carry(i) == \E j \in (i + 1)..n :
                       a[j] = 1 /\ b[j] = 1 /\ \A k \in (i + 1)..(j - 1) : a[k] + b[k] = 1
    IN [i \in 1..n |-> (a[i] + b[i] + (IF carry(i) THEN 1 ELSE 0)) % 2]

RECURSIVE IntOfBits(_)
IntOfBits(b) ==
    IF b = <<>> THEN 0 ELSE 2 * IntOfBits(SubSeq(b, 1, Len(b) - 1)) + b[Len(b)]

\* round(f, 2) in cents: the exact value of f times 100 (64 + 32 + 4),
\* rounded half-even to an integer, with the sign of f
Round2(f) ==
    LET n == Len(f.m) + 7
        p == BitsAdd(BitsAdd(PadTo(f.m \o Zeros(6), n), PadTo(f.m \o Zeros(5), n)),
                     PadTo(f.m \o Zeros(2), n))
        k == IF f.x >= 0 THEN 0 ELSE 0 - f.x
        q == IF f.x >= 0 THEN p \o Zeros(f.x) ELSE PadTo(p, MaxOf(n, k))
        ip == SubSeq(q, 1, Len(q) - k)
        fr == SubSeq(q, Len(q) - k + 1, Len(q))
        whole == IntOfBits(StripLeadingZeros(ip))
        up == /\ fr # <<>>
              /\ fr[1] = 1
              /\ ((\E i \in 2..Len(fr) : fr[i] = 1) \/ whole % 2 = 1)
        cents == whole + (IF up THEN 1 ELSE 0)
    IN IF f.m = <<>> THEN 0 ELSE IF f.neg THEN 0 - cents ELSE cents

\* ------------------------------------------------------------------------
\* Program constants
\* ------------------------------------------------------------------------
\* PRICE_TOLERANCE = 0.01, in cents
PRICE_TOLERANCE == 1
\* confidences in thousandths (they are rounded to 3 places by the parser)
CONFIDENCE_THRESHOLD == 700
TextConfidence == 500
NoneConfidence == 100
LlmConfidence == 900
EmptyConfidence == 0

\* ------------------------------------------------------------------------
\* Serial-number matching (app/po_validator/__init__.py)
\* ------------------------------------------------------------------------
normalise_sn(sn) == SelectSeq(upper(strip(sn)), NotRemoved)

\* variant: a part of any length matches
match_sn_any_length(x, y) ==
    LET a == normalise_sn(x)
        b == normalise_sn(y)
    IN \/ a = b
       \/ lstrip0(a) = lstrip0(b)
       \/ Contains(b, a) \/ Contains(a, b)

match_sn(x, y) ==
    LET a == normalise_sn(x)
        b == normalise_sn(y)
    IN \/ a = b
       \/ lstrip0(a) = lstrip0(b)
       \/ Len(a) >= 4 /\ Len(b) >= 4 /\ (Contains(b, a) \/ Contains(a, b))

wi_price(wi) == IF wi.service_charge # NoPrice THEN wi.service_charge ELSE wi.service_total

po_price(item) == IF item.unit_price # NoPrice THEN item.unit_price ELSE item.extended_price

search_text_for(item, wi_serial) ==
    IF Truthy(item.serial_number) THEN item.serial_number
    ELSE IF Truthy(wi_serial) THEN wi_serial
    ELSE OrEmpty(item.description)

\* po_p - expected in binary64, and abs(diff) <= PRICE_TOLERANCE
float_diff(po_p, expected) == FloatSub(FloatOfCents(po_p), FloatOfCents(expected))
within_tolerance(po_p, expected) ==
    MagLeq(float_diff(po_p, expected), FloatOfCents(PRICE_TOLERANCE))
\* abs(p1 - e1) < abs(p2 - e2)
closer(p1, e1, p2, e2) == MagLess(float_diff(p1, e1), float_diff(p2, e2))

\* variant: a price counts only when it is truthy (0.00 does not)
has_any_price_truthy(line_items) ==
    \E i \in 1..Len(line_items) :
        line_items[i].unit_price > 0 \/ line_items[i].extended_price > 0

has_any_price(line_items) ==
    \E i \in 1..Len(line_items) :
        line_items[i].unit_price # NoPrice \/ line_items[i].extended_price # NoPrice

\* ------------------------------------------------------------------------
\* Inputs: Qualer work items
\* ------------------------------------------------------------------------
WorkItem(sn, asset, charge, total) ==
    [serial_number |-> sn, asset_name |-> asset, service_charge |-> charge, service_total |-> total]

WorkItemPool ==
    { WorkItem(<<"A", "B", "C", "1", "2", "3">>, <<>>, 10000, NoPrice),
      WorkItem(NoStr, <<>>, 10000, NoPrice),
      WorkItem(<<"X", "Y", "Z", "1">>, <<"G", "a", "g", "e">>, NoPrice, 5000),
      WorkItem(<<"Q", "9", " ", "(", "A", ")">>, <<>>, 7500, 7500),
      WorkItem(<<"A", "B", "C", "1", "2", "3">>, <<>>, NoPrice, NoPrice) }

RECURSIVE SeqsUpTo(_, _)
SeqsUpTo(S, n) ==
    IF n = 0 THEN {<<>>}
    ELSE LET shorter == SeqsUpTo(S, n - 1)
         IN shorter \cup {Append(s, e) : s \in {t \in shorter : Len(t) = n - 1}, e \in S}

WorkItemLists == SeqsUpTo(WorkItemPool, MaxWorkItems)

\* ------------------------------------------------------------------------
\* Inputs: the PDF
\* ------------------------------------------------------------------------
\* a row as printed on the PO
Row(sn, desc, unit, ext) ==
    [serial_number |-> sn, description |-> desc, unit_price |-> unit, extended_price |-> ext]

RowA0 == Row(<<"A", "B", "C", "-", "1", "2", "3">>, <<"C", "A", "L">>, 10000, NoPrice)
RowA1 == Row(<<"A", "B", "C", "-", "1", "2", "3">>, <<"C", "A", "L">>, 10001, NoPrice)
RowX == Row(<<"X", "Y", "Z", "1">>, <<>>, NoPrice, 5001)
RowG == Row(NoStr, <<"G", "A", "G", "E">>, 7500, NoPrice)
RowT == Row(NoStr, <<"T", "R", "A", "V", "E", "L">>, NoPrice, NoPrice)
RowZ == Row(<<"X", "Y", "Z", "1">>, <<"C", "A", "L">>, 0, NoPrice)
\* a network device listed with its address in the S/N column
RowIP == Row(<<"1", "0", ".", "0", ".", "0", ".", "1">>, <<"P", "L", "C">>, 10000, NoPrice)

RowLists ==
    { <<>>, <<RowA0>>, <<RowA1>>, <<RowT>>, <<RowZ>>, <<RowX>>,
      <<RowA1, RowA0>>, <<RowA0, RowG>>, <<RowX, RowT>>, <<RowG, RowX>>,
      <<RowG, RowG, RowG, RowG, RowT>> }

\* the amounts of the pools, and the float results on them computed once
Amounts ==
    {wi_price(w) : w \in WorkItemPool}
    \cup UNION {{r[i].unit_price : i \in 1..Len(r)} : r \in RowLists}
    \cup UNION {{r[i].extended_price : i \in 1..Len(r)} : r \in RowLists}
Prices == Amounts \ {NoPrice}
ToleranceTable == [p \in Prices \X Prices |-> within_tolerance(p[1], p[2])]
CloserTable ==
    [p \in Prices \X Prices \X Prices \X Prices |-> closer(p[1], p[2], p[3], p[4])]
WithinTolerance(po_p, expected) == ToleranceTable[<<po_p, expected>>]
Closer(p1, e1, p2, e2) == CloserTable[<<p1, e1, p2, e2>>]

\* text on the page besides the rows
TextNone == <<>>
TextRequest == <<"O", "r", "d", "e", "r", " ", "P", "r", "i", "c", "e", " ", "U", "p", "d", "a", "t", "e", " ", "-", " ", "R", "e", "q", "u", "e", "s", "t", " ", "f", "o", "r", " ", "P", "O">>
TextUpdate == <<"O", "R", "D", "E", "R", " ", "P", "R", "I", "C", "E", " ", "U", "P", "D", "A", "T", "E">>
TextGage == <<"G", "A", "G", "E", " ", "Q", "9">>
TextPool == {TextNone, TextRequest, TextUpdate, TextGage}

\* header cells recognised in the table: the four column roles, and "ext"
\* for a second price-like column
RoleCols == {"sn", "price", "qty", "desc"}
FullCols == {"sn", "price", "ext", "qty", "desc"}

\* layout "table": text layer and a detected table; "text": text layer, no
\* table detected; "image": the rows are a picture (no text layer for them)
Layouts == {"table", "text", "image"}

Doc(t, l, c, r) == [readable |-> TRUE, text |-> t, layout |-> l, cols |-> c, rows |-> r]

\* the columns matter to a detected table only; no text of the pools holds
\* an S/N marker ("SN", "S/N", "Serial"), so that the text pass over the
\* descriptions (_enrich_items_with_text_sns) finds nothing to add
Docs ==
    {Doc(t, "table", FullCols, r) : t \in TextPool, r \in RowLists}
    \cup {Doc(TextNone, "table", {"sn", "price"}, r) : r \in RowLists}
    \cup {Doc(t, l, {"sn", "price"}, r) :
              t \in {TextNone, TextGage}, l \in Layouts \ {"table"}, r \in RowLists}
    \cup {Doc(TextNone, l, {"sn", "price"}, <<RowIP>>) : l \in {"table", "text"}}

UnreadableDoc ==
    [readable |-> FALSE, text |-> <<>>, layout |-> "image",
     cols |-> {"sn", "price"}, rows |-> <<>>]

AllDocs == Docs \cup {UnreadableDoc}

RowText(row) == strip(OrEmpty(row.serial_number) \o <<" ">> \o OrEmpty(row.description))

\* the lines of the page: the text, then one line per row
PageLines(doc) ==
    (IF doc.text = <<>> THEN <<>> ELSE <<[text |-> doc.text, row |-> 0]>>)
    \o (IF doc.layout = "image" THEN <<>>
        ELSE [i \in 1..Len(doc.rows) |-> [text |-> RowText(doc.rows[i]), row |-> i]])

RECURSIVE JoinLines(_)
JoinLines(lines) ==
    IF lines = <<>> THEN <<>>
    ELSE IF Len(lines) = 1 THEN lines[1].text
    ELSE lines[1].text \o <<"\n">> \o JoinLines(Tail(lines))

\* page.extract_text()
PageText(doc) == JoinLines(PageLines(doc))

\* ------------------------------------------------------------------------
\* Extraction results (POExtraction)
\* ------------------------------------------------------------------------
Extraction(items, conf, method, text) ==
    [line_items |-> items, confidence |-> conf, extraction_method |-> method, raw_text |-> text]

NoExtraction == Extraction(<<>>, 0 - 1, "None", <<>>)

POLineItem(sn, desc, unit, ext) ==
    [serial_number |-> sn, description |-> desc, unit_price |-> unit, extended_price |-> ext]

\* round(p / n) to an integer, ties to even
RoundHalfEven(p, n) ==
    LET q == p \div n
        r == p % n
    IN IF 2 * r > n \/ (2 * r = n /\ q % 2 = 1) THEN q + 1 ELSE q

\* ------------------------------------------------------------------------
\* Tier 1 (app/po_validator/extractor.py)
\* ------------------------------------------------------------------------
\* _IP_ADDRESS: four groups of one to three digits, separated by dots
IsIpAddress(s) ==
    \E a, b, c \in 1..Len(s) :
        /\ a < b /\ b < c
        /\ \A i \in 1..Len(s) :
              IF i \in {a, b, c} THEN s[i] = "."
              ELSE s[i] \in {"0", "1", "2", "3", "4", "5", "6", "7", "8", "9"}
        /\ a - 1 \in 1..3 /\ b - a - 1 \in 1..3
        /\ c - b - 1 \in 1..3 /\ Len(s) - c \in 1..3

\* one data row of _parse_table
parse_row(row, cols) ==
    POLineItem(IF "sn" \in cols THEN row.serial_number ELSE NoStr,
               IF "desc" \in cols THEN OrEmpty(row.description) ELSE <<>>,
               IF "price" \in cols THEN row.unit_price ELSE NoPrice,
               IF "price" \in cols /\ "ext" \in cols THEN row.extended_price ELSE NoPrice)

RowKept(item) ==
    ~(item.serial_number = NoStr /\ item.unit_price = NoPrice /\ item.description = <<>>)

HasSerial(item) == Truthy(item.serial_number)
HasUnitPrice(item) == item.unit_price # NoPrice

table_confidence(items, cols) ==
    LET cols_found == Cardinality(cols \cap RoleCols)
        rows_with_sn == Cardinality({i \in 1..Len(items) : HasSerial(items[i])})
        rows_with_price == Cardinality({i \in 1..Len(items) : HasUnitPrice(items[i])})
        k == rows_with_sn + rows_with_price
    IN RoundHalfEven(125 * cols_found * Len(items) + 250 * k, Len(items))

parse_table(rows, cols) ==
    IF rows = <<>> \/ ("price" \notin cols /\ "sn" \notin cols)
    THEN [items |-> <<>>, conf |-> 0]
    ELSE LET parsed == [i \in 1..Len(rows) |-> parse_row(rows[i], cols)]
             items == SelectSeq(parsed, RowKept)
         IN IF items = <<>> THEN [items |-> <<>>, conf |-> 0]
            ELSE [items |-> items, conf |-> table_confidence(items, cols)]

\* the description of a text-line item: the line, then up to two following
\* lines while they carry no price
RowHasPrice(row) == row.unit_price # NoPrice \/ row.extended_price # NoPrice
LineHasPrice(doc, line) == line.row # 0 /\ RowHasPrice(doc.rows[line.row])

text_description(doc, lines, i) ==
    LET more(j) == j <= Len(lines) /\ ~LineHasPrice(doc, lines[j])
        part(j) == IF lines[j].text = <<>> THEN <<>>
                   ELSE <<" ", "|", " ">> \o lines[j].text
        l1 == IF more(i + 1) THEN part(i + 1) ELSE <<>>
        l2 == IF more(i + 1) /\ more(i + 2) THEN part(i + 2) ELSE <<>>
    IN lines[i].text \o l1 \o l2

text_item(doc, lines, i) ==
    LET row == doc.rows[lines[i].row]
        both == row.unit_price # NoPrice /\ row.extended_price # NoPrice
    IN POLineItem(NoStr, text_description(doc, lines, i),
                  IF both THEN row.unit_price ELSE po_price(row),
                  IF both THEN row.extended_price ELSE NoPrice)

RECURSIVE text_items_from(_, _, _)
text_items_from(doc, lines, i) ==
    IF i > Len(lines) THEN <<>>
    ELSE (IF LineHasPrice(doc, lines[i]) THEN <<text_item(doc, lines, i)>> ELSE <<>>)
         \o text_items_from(doc, lines, i + 1)

parse_text_lines(doc) == text_items_from(doc, PageLines(doc), 1)

extract_with_pdfplumber(doc) ==
    IF ~doc.readable THEN NoExtraction
    ELSE LET raw_text == PageText(doc)
             has_table == doc.layout = "table"
             best == IF has_table THEN parse_table(doc.rows, doc.cols)
                     ELSE [items |-> <<>>, conf |-> 0]
             text_items == parse_text_lines(doc)
         IN IF PageLines(doc) = <<>> /\ ~has_table THEN NoExtraction
            ELSE IF best.items # <<>>
            THEN Extraction(best.items, best.conf, "table", raw_text)
            ELSE IF text_items # <<>>
            THEN Extraction(text_items, TextConfidence, "text", raw_text)
            ELSE Extraction(<<>>, NoneConfidence, "none", raw_text)

\* ------------------------------------------------------------------------
\* Tier 2 (app/po_validator/extractor.py)
\* ------------------------------------------------------------------------
\* what the environment does to one call: is GEMINI_API_KEY set, do the
\* pages render, does the API call return, and the response text;
\* "no_answer" is a service that accepts the request and never answers
Responses == {"bad_json", "not_object", "null_description", "rows", "no_items"}

LlmEnv(key, render, api, resp) ==
    [api_key |-> key, render_ok |-> render, api_ok |-> api, response |-> resp]

LlmEnvs(doc) ==
    {LlmEnv(FALSE, doc.readable, TRUE, "rows"), LlmEnv(TRUE, FALSE, TRUE, "rows")}
    \cup (IF doc.readable
          THEN {LlmEnv(TRUE, TRUE, FALSE, "rows")}
               \cup {LlmEnv(TRUE, TRUE, TRUE, r) :
                        r \in IF doc.rows = <<>> THEN Responses \ {"null_description"}
                              ELSE Responses}
               \cup {LlmEnv(TRUE, TRUE, TRUE, "no_answer")}
          ELSE {})

llm_items(doc) ==
    [i \in 1..Len(doc.rows) |->
        POLineItem(doc.rows[i].serial_number, OrEmpty(doc.rows[i].description),
                   doc.rows[i].unit_price, doc.rows[i].extended_price)]

Returned(v) == [raised |-> FALSE, blocked |-> FALSE, value |-> v]
Raised == [raised |-> TRUE, blocked |-> FALSE, value |-> NoExtraction]
\* generate_content is called without a timeout: the call waits for the answer
Blocked == [raised |-> FALSE, blocked |-> TRUE, value |-> NoExtraction]

\* variant: the JSON parse error is not caught
extract_with_llm_uncaught(doc, env) ==
    IF ~env.api_key THEN Returned(NoExtraction)
    ELSE IF ~env.render_ok THEN Returned(NoExtraction)
    ELSE IF env.response = "no_answer" THEN Blocked
    ELSE IF ~env.api_ok THEN Returned(NoExtraction)
    ELSE IF env.response \in {"bad_json", "not_object", "null_description"} THEN Raised
    ELSE Returned(Extraction(IF env.response = "rows" THEN llm_items(doc) ELSE <<>>,
                             LlmConfidence, "llm", <<>>))

extract_with_llm(doc, env) ==
    IF ~env.api_key THEN Returned(NoExtraction)
    ELSE IF ~env.render_ok THEN Returned(NoExtraction)
    ELSE IF env.response = "no_answer" THEN Blocked
    ELSE IF ~env.api_ok THEN Returned(NoExtraction)
    ELSE IF env.response = "bad_json" THEN Returned(NoExtraction)
    ELSE IF env.response = "not_object" THEN Raised
    ELSE IF env.response = "null_description" THEN Raised
    ELSE Returned(Extraction(IF env.response = "rows" THEN llm_items(doc) ELSE <<>>,
                             LlmConfidence, "llm", <<>>))

\* ------------------------------------------------------------------------
\* Orchestrator (app/po_validator/extractor.py)
\* ------------------------------------------------------------------------
\* variant: the threshold itself is not accepted
tier1_accepted_strict(table_result) ==
    table_result # NoExtraction /\ table_result.confidence > CONFIDENCE_THRESHOLD

tier1_accepted(table_result) ==
    table_result # NoExtraction /\ table_result.confidence >= CONFIDENCE_THRESHOLD

\* variant: the tier-2 result is returned as it came
best_extraction_no_text(table_result, llm_result) ==
    IF llm_result # NoExtraction /\ llm_result.line_items # <<>>
    THEN llm_result
    ELSE IF table_result # NoExtraction THEN table_result
    ELSE Extraction(<<>>, EmptyConfidence, "none", <<>>)

best_extraction(table_result, llm_result) ==
    IF llm_result # NoExtraction /\ llm_result.line_items # <<>>
    THEN IF table_result # NoExtraction /\ table_result.raw_text # <<>>
         THEN [llm_result EXCEPT !.raw_text = table_result.raw_text]
         ELSE llm_result
    ELSE IF table_result # NoExtraction THEN table_result
    ELSE Extraction(<<>>, EmptyConfidence, "none", <<>>)

\* ------------------------------------------------------------------------
\* validate(): state
\* ------------------------------------------------------------------------
VARIABLES
    work_items,       \* argument: the Qualer work items
    doc,              \* argument: the PDF
    pc,               \* position in validate()
    wi_entries,       \* (normalised key, work item) of the items with an S/N
    table_result,     \* extract_po_data: tier-1 result
    tier2_called,     \* extract_with_llm has been called
    llm_env,          \* what the environment did to that call
    llm_result,       \* extract_po_data: tier-2 result
    extraction,       \* the POExtraction validate works on
    candidates,       \* phase 1: sorted candidate pairs
    cursor,           \* loop index of the running loop
    matched_wi_idxs,
    matched_po_idxs,
    checked,
    matched_count,
    mismatches,
    annotations,
    accepted,         \* the accepted (work item, PO line) pairs, in order
    missing_items,
    status,           \* status of the returned ValidationResult
    document_name,    \* argument: the original file name
    doc_open,         \* annotate_pdf: the fitz document is open
    stamp_open,       \* annotate_pdf: the stamp document is open
    outcome,          \* annotate_pdf: the overall outcome
    ret,              \* what validate_and_annotate / annotate_pdf returned
    report_file,      \* reporter: the content of the JSON report file
    savers,           \* reporter: the save_json_report call of each thread
    saved,            \* reporter: the results of the completed calls
    sn1,              \* _match_sn: arguments and result
    sn2,
    sn_result,
    run,              \* extract_po_data: which run on these bytes
    first,            \* extract_po_data: environment and result of run 1
    filepath,         \* upload: the path of the file
    attempts,         \* upload: the failed attempts
    requests,         \* upload: the upload requests sent, with their answers
    files,            \* upload: the names present in the directory
    uploaded,         \* upload: the returned tuple
    ann_list,         \* annotate_pdf: result.annotations
    ann,              \* annotate_pdf: index of the loop variable ann
    page,             \* annotate_pdf: the text occurrences on the page
    used_positions,   \* annotate_pdf: the row keys already consumed
    drawn             \* annotate_pdf: the icons drawn, in order

vars == <<work_items, doc, pc, wi_entries, table_result, tier2_called, llm_env,
          llm_result, extraction, candidates, cursor, matched_wi_idxs,
          matched_po_idxs, checked, matched_count, mismatches, annotations,
          accepted, missing_items, status, document_name, doc_open, stamp_open,
          outcome, ret, report_file, savers, saved, sn1, sn2, sn_result, run, first,
          filepath, attempts, requests, files, uploaded, ann_list, ann, page,
          used_positions, drawn>>

inputs == <<work_items, doc>>
extractVars == <<table_result, tier2_called, llm_env, llm_result, extraction>>
matchVars == <<matched_wi_idxs, matched_po_idxs, checked, matched_count,
               mismatches, annotations, accepted>>
annotVars == <<document_name, doc_open, stamp_open, outcome, ret>>
reportVars == <<report_file, savers, saved>>
uploadVars == <<filepath, attempts, requests, files, uploaded>>
drawVars == <<ann_list, ann, page, used_positions, drawn>>
callVars == <<sn1, sn2, sn_result, run, first, uploadVars, drawVars>>
sideVars == <<annotVars, reportVars, callVars>>

NoEnv == LlmEnv(FALSE, FALSE, FALSE, "uncalled")

PhraseUpdate == <<"o", "r", "d", "e", "r", " ", "p", "r", "i", "c", "e", " ", "u", "p", "d", "a", "t", "e">>
PhraseRequest == <<"r", "e", "q", "u", "e", "s", "t", " ", "f", "o", "r", " ", "p", "o">>

is_price_update_request(first_text) ==
    Contains(lower(first_text), PhraseUpdate) /\ Contains(lower(first_text), PhraseRequest)

sn_variants(sn_str) ==
    LET base_sn == strip(StripParen(sn_str))
    IN (IF sn_str # <<>> THEN {sn_str} ELSE {})
       \cup (IF base_sn # <<>> /\ base_sn # sn_str THEN {base_sn} ELSE {})

occurs_in(wi, text) ==
    LET asset == OrEmpty(wi.asset_name)
    IN \/ \E v \in sn_variants(OrEmpty(wi.serial_number)) : Contains(text, v)
       \/ asset # <<>> /\ Contains(lower(text), lower(asset))

\* the names a document is uploaded under; validate's default is ""
NamePlain == <<"P", "O", "-", "1", "0", "0", "1", ".", "p", "d", "f">>
DocumentNames == {NamePlain, <<>>, <<"s", "c", "a", "n", "s", "/", "p", "o", ".", "v", "2", ".", "p", "d", "f">>, <<"P", "O", "7">>}

\* worker threads that report to one path
Workers == 1..NumWorkers

\* no call has started: the locals of validate, its result, the handles of
\* annotate_pdf, the report file, the first call of extract_po_data
Idle ==
    /\ wi_entries = <<>>
    /\ table_result = NoExtraction
    /\ tier2_called = FALSE
    /\ llm_env = NoEnv
    /\ llm_result = NoExtraction
    /\ extraction = NoExtraction
    /\ candidates = <<>>
    /\ cursor = 0
    /\ matched_wi_idxs = {}
    /\ matched_po_idxs = {}
    /\ checked = 0
    /\ matched_count = 0
    /\ accepted = <<>>
    /\ mismatches = <<>>
    /\ annotations = <<>>
    /\ missing_items = <<>>
    /\ status = "-"
    /\ doc_open = FALSE
    /\ stamp_open = FALSE
    /\ outcome = "-"
    /\ ret = [bytes |-> "-", filename |-> <<>>, path |-> "-"]
    /\ report_file = <<>>
    /\ savers = [t \in Workers |-> [at |-> "idle", existing |-> <<>>, calls |-> 0]]
    /\ saved = {}
    /\ run = 1
    /\ first = [env |-> NoEnv, extraction |-> NoExtraction, pc |-> "-"]

UploadIdle ==
    /\ filepath = <<>>
    /\ attempts = 0
    /\ requests = <<>>
    /\ files = {}
    /\ uploaded = [ok |-> FALSE, path |-> <<>>]

DrawIdle ==
    /\ ann_list = <<>>
    /\ ann = 0
    /\ page = <<>>
    /\ used_positions = {}
    /\ drawn = <<>>

SnIdle ==
    /\ sn1 = <<>>
    /\ sn2 = <<>>
    /\ sn_result = "-"
    /\ UploadIdle
    /\ DrawIdle

Init ==
    /\ work_items \in WorkItemLists
    /\ doc \in AllDocs
    /\ document_name = NamePlain
    /\ pc = "start"
    /\ Idle
    /\ SnIdle

\* ------------------------------------------------------------------------
\* validate(): entry, content check, extraction
\* ------------------------------------------------------------------------
HasSerialNumber(wi) == Truthy(wi.serial_number)

build_wi_entries(items) ==
    LET idxs == SelectSeq([i \in 1..Len(items) |-> i], LAMBDA i : HasSerialNumber(items[i]))
    IN [k \in 1..Len(idxs) |->
           [key |-> normalise_sn(items[idxs[k]].serial_number), wi |-> idxs[k]]]

ValidateEntry ==
    /\ pc = "start"
    /\ UNCHANGED sideVars
    /\ IF work_items = <<>>
       THEN /\ status' = "extraction_failed"
            /\ pc' = "done"
            /\ UNCHANGED wi_entries
       ELSE /\ wi_entries' = build_wi_entries(work_items)
            /\ pc' = "quick"
            /\ UNCHANGED status
    /\ UNCHANGED <<inputs, extractVars, matchVars, candidates, cursor, missing_items>>

\* the quick content check; an unreadable PDF raises inside the try block
QuickCheck ==
    /\ pc = "quick"
    /\ UNCHANGED sideVars
    /\ IF doc.readable /\ is_price_update_request(PageText(doc))
       THEN status' = "skipped" /\ pc' = "done"
       ELSE pc' = "tier1" /\ UNCHANGED status
    /\ UNCHANGED <<inputs, wi_entries, extractVars, matchVars, candidates, cursor,
                   missing_items>>

\* extract_po_data: tier 1, returned at once when confident
Tier1 ==
    /\ pc = "tier1"
    /\ UNCHANGED sideVars
    /\ table_result' = extract_with_pdfplumber(doc)
    /\ IF tier1_accepted(table_result')
       THEN extraction' = table_result' /\ pc' = "classify"
       ELSE pc' = "tier2" /\ UNCHANGED extraction
    /\ UNCHANGED <<inputs, wi_entries, tier2_called, llm_env, llm_result, matchVars,
                   candidates, cursor, missing_items, status>>

\* variant: the second call may be answered differently
any_response(env) == TRUE

\* a repeated call meets the environment of the first call: the same bytes
\* render alike and the request is sent with temperature 0
same_response(env) == run = 2 => env = first.env

\* extract_po_data: the call of extract_with_llm; what it raises leaves
\* extract_po_data and validate
Tier2 ==
    /\ pc = "tier2"
    /\ UNCHANGED sideVars
    /\ \E env \in {e \in LlmEnvs(doc) : same_response(e)} :
          LET r == extract_with_llm(doc, env)
          IN /\ llm_env' = env
             /\ tier2_called' = TRUE
             /\ llm_result' = r.value
             /\ pc' = IF r.blocked THEN "blocked" ELSE IF r.raised THEN "raised" ELSE "merge"
    /\ UNCHANGED <<inputs, wi_entries, table_result, extraction, matchVars, candidates,
                   cursor, missing_items, status>>

\* extract_po_data: the choice between the two results
Merge ==
    /\ pc = "merge"
    /\ UNCHANGED sideVars
    /\ extraction' = best_extraction(table_result, llm_result)
    /\ pc' = "classify"
    /\ UNCHANGED <<inputs, wi_entries, table_result, tier2_called, llm_env, llm_result,
                   matchVars, candidates, cursor, missing_items, status>>

\* validate after extract_po_data has returned (its locals are gone)
Classify ==
    /\ pc = "classify"
    /\ UNCHANGED sideVars
    /\ table_result' = NoExtraction
    /\ llm_result' = NoExtraction
    /\ llm_env' = NoEnv
    /\ IF extraction.line_items = <<>>
       THEN status' = "extraction_failed" /\ pc' = "done" /\ UNCHANGED checked
       ELSE IF ~has_any_price(extraction.line_items)
       THEN /\ status' = "no_pricing"
            /\ checked' = Len(extraction.line_items)
            /\ pc' = "done"
       ELSE pc' = "candidates" /\ UNCHANGED <<status, checked>>
    /\ UNCHANGED <<inputs, wi_entries, tier2_called, extraction, candidates, cursor,
                   matched_wi_idxs, matched_po_idxs, matched_count, mismatches,
                   annotations, accepted, missing_items>>

\* ------------------------------------------------------------------------
\* validate(): phase 1
\* ------------------------------------------------------------------------
Candidate(wi_idx, po_idx, expected, po_p) ==
    [wi_idx |-> wi_idx, po_idx |-> po_idx, expected |-> expected, po_p |-> po_p]

is_candidate(wi_idx, po_idx) ==
    LET wi == work_items[wi_entries[wi_idx].wi]
        po_item == extraction.line_items[po_idx]
    IN /\ wi_price(wi) # NoPrice
       /\ Truthy(po_item.serial_number)
       /\ match_sn(po_item.serial_number, wi_entries[wi_idx].key)
       /\ po_price(po_item) # NoPrice

\* variant: the candidates stay in the order they were found in
candidate_less_by_index(c1, c2) ==
    \/ c1.wi_idx < c2.wi_idx
    \/ c1.wi_idx = c2.wi_idx /\ c1.po_idx < c2.po_idx

\* tuple order of (abs(po_p - expected), wi_idx, po_idx, ...)
candidate_less(c1, c2) ==
    \/ Closer(c1.po_p, c1.expected, c2.po_p, c2.expected)
    \/ /\ ~Closer(c2.po_p, c2.expected, c1.po_p, c1.expected)
       /\ \/ c1.wi_idx < c2.wi_idx
          \/ c1.wi_idx = c2.wi_idx /\ c1.po_idx < c2.po_idx

RECURSIVE SetToSeq(_)
SetToSeq(S) ==
    IF S = {} THEN <<>>
    ELSE LET e == CHOOSE x \in S : TRUE IN <<e>> \o SetToSeq(S \ {e})

build_candidates ==
    LET pairs == {p \in (1..Len(wi_entries)) \X (1..Len(extraction.line_items)) :
                     is_candidate(p[1], p[2])}
        cands == {Candidate(p[1], p[2], wi_price(work_items[wi_entries[p[1]].wi]),
                            po_price(extraction.line_items[p[2]])) : p \in pairs}
    IN SortSeq(SetToSeq(cands), candidate_less)

BuildCandidates ==
    /\ pc = "candidates"
    /\ UNCHANGED sideVars
    /\ candidates' = build_candidates
    /\ cursor' = 1
    /\ pc' = "phase1"
    /\ UNCHANGED <<inputs, wi_entries, extractVars, matchVars, missing_items, status>>

\* the bookkeeping of one accepted match (both phases)
\* variant: every accepted match counts as matched
RecordMatch_count_all(wi_idx, po_idx, expected, po_p, phase, mm_serial, wi_serial) ==
    LET po_item == extraction.line_items[po_idx]
        ok == WithinTolerance(po_p, expected)
    IN /\ matched_wi_idxs' = matched_wi_idxs \cup {wi_idx}
       /\ matched_po_idxs' = matched_po_idxs \cup {po_idx}
       /\ checked' = checked + 1
       /\ matched_count' = matched_count + 1
       /\ mismatches' =
             IF ok THEN mismatches
             ELSE Append(mismatches,
                         [serial_number |-> mm_serial, po_price |-> po_p,
                          expected_price |-> expected,
                          difference |-> Round2(float_diff(po_p, expected)),
                          wi_idx |-> wi_idx])
       /\ annotations' =
             Append(annotations,
                    [status |-> IF ok THEN "ok" ELSE "mismatch", po_idx |-> po_idx,
                     search_text |-> search_text_for(po_item, wi_serial)])
       /\ accepted' = Append(accepted, [wi_idx |-> wi_idx, po_idx |-> po_idx,
                                        phase |-> phase, ok |-> ok])

RecordMatch(wi_idx, po_idx, expected, po_p, phase, mm_serial, wi_serial) ==
    LET po_item == extraction.line_items[po_idx]
        ok == WithinTolerance(po_p, expected)
    IN /\ matched_wi_idxs' = matched_wi_idxs \cup {wi_idx}
       /\ matched_po_idxs' = matched_po_idxs \cup {po_idx}
       /\ checked' = checked + 1
       /\ matched_count' = IF ok THEN matched_count + 1 ELSE matched_count
       /\ mismatches' =
             IF ok THEN mismatches
             ELSE Append(mismatches,
                         [serial_number |-> mm_serial, po_price |-> po_p,
                          expected_price |-> expected,
                          difference |-> Round2(float_diff(po_p, expected)),
                          wi_idx |-> wi_idx])
       /\ annotations' =
             Append(annotations,
                    [status |-> IF ok THEN "ok" ELSE "mismatch", po_idx |-> po_idx,
                     search_text |-> search_text_for(po_item, wi_serial)])
       /\ accepted' = Append(accepted, [wi_idx |-> wi_idx, po_idx |-> po_idx,
                                        phase |-> phase, ok |-> ok])

Phase1Accept ==
    /\ pc = "phase1"
    /\ UNCHANGED sideVars
    /\ IF cursor > Len(candidates)
       THEN pc' = "phase2" /\ cursor' = 1 /\ UNCHANGED matchVars
       ELSE LET c == candidates[cursor]
                wi == work_items[wi_entries[c.wi_idx].wi]
                po_item == extraction.line_items[c.po_idx]
            IN /\ cursor' = cursor + 1
               /\ pc' = "phase1"
               /\ IF c.wi_idx \in matched_wi_idxs \/ c.po_idx \in matched_po_idxs
                  THEN UNCHANGED matchVars
                  ELSE RecordMatch(c.wi_idx, c.po_idx, c.expected, c.po_p, 1,
                                   IF Truthy(po_item.serial_number)
                                   THEN po_item.serial_number
                                   ELSE OrEmpty(wi.serial_number),
                                   wi.serial_number)
    /\ UNCHANGED <<inputs, wi_entries, extractVars, candidates, missing_items, status>>

\* ------------------------------------------------------------------------
\* validate(): phase 2
\* ------------------------------------------------------------------------
found_in_text(wi) ==
    \/ occurs_in(wi, extraction.raw_text)
    \/ \E i \in 1..Len(extraction.line_items) :
          occurs_in(wi, OrEmpty(extraction.line_items[i].description))

\* variant: the lines matched so far stay eligible
best_po_idx_any(expected) ==
    LET free == {i \in 1..Len(extraction.line_items) :
                    po_price(extraction.line_items[i]) # NoPrice}
        p(i) == po_price(extraction.line_items[i])
    IN IF free = {} \/ expected = NoPrice THEN 0
       ELSE CHOOSE i \in free :
               \A j \in free \ {i} :
                   IF j < i THEN Closer(p(i), expected, p(j), expected)
                   ELSE ~Closer(p(j), expected, p(i), expected)

\* variant: the last of the closest lines wins (d <= best_diff)
best_po_idx_last(expected) ==
    LET free == {i \in 1..Len(extraction.line_items) :
                    i \notin matched_po_idxs /\ po_price(extraction.line_items[i]) # NoPrice}
        p(i) == po_price(extraction.line_items[i])
    IN IF free = {} \/ expected = NoPrice THEN 0
       ELSE CHOOSE i \in free :
               \A j \in free \ {i} :
                   IF j > i THEN Closer(p(i), expected, p(j), expected)
                   ELSE ~Closer(p(j), expected, p(i), expected)

\* the unmatched priced line closest to expected, the first one on ties; 0 if none
best_po_idx(expected) ==
    LET free == {i \in 1..Len(extraction.line_items) :
                    i \notin matched_po_idxs /\ po_price(extraction.line_items[i]) # NoPrice}
        p(i) == po_price(extraction.line_items[i])
    IN IF free = {} \/ expected = NoPrice THEN 0
       ELSE CHOOSE i \in free :
               \A j \in free \ {i} :
                   IF j < i THEN Closer(p(i), expected, p(j), expected)
                   ELSE ~Closer(p(j), expected, p(i), expected)

Phase2Match ==
    /\ pc = "phase2"
    /\ UNCHANGED sideVars
    /\ IF cursor > Len(wi_entries)
       THEN pc' = "finalize" /\ cursor' = 0 /\ UNCHANGED matchVars
       ELSE LET wi == work_items[wi_entries[cursor].wi]
                expected == wi_price(wi)
                best == best_po_idx(expected)
            IN /\ cursor' = cursor + 1
               /\ pc' = "phase2"
               /\ IF \/ cursor \in matched_wi_idxs
                     \/ ~found_in_text(wi)
                     \/ expected = NoPrice
                     \/ best = 0
                  THEN UNCHANGED matchVars
                  ELSE RecordMatch(cursor, best, expected,
                                   po_price(extraction.line_items[best]), 2,
                                   OrEmpty(wi.serial_number), OrEmpty(wi.serial_number))
    /\ UNCHANGED <<inputs, wi_entries, extractVars, candidates, missing_items, status>>

\* ------------------------------------------------------------------------
\* validate(): missing items, unverified lines, status
\* ------------------------------------------------------------------------
\* variant: only the work items with an expected price are reported
build_missing_items_priced ==
    LET idxs == SelectSeq([i \in 1..Len(wi_entries) |-> i],
                          LAMBDA i : /\ i \notin matched_wi_idxs
                                     /\ wi_price(work_items[wi_entries[i].wi]) # NoPrice)
    IN [k \in 1..Len(idxs) |->
           LET wi == work_items[wi_entries[idxs[k]].wi]
           IN [wi |-> wi_entries[idxs[k]].wi,
               serial_number |-> OrEmpty(wi.serial_number),
               asset_name |-> OrEmpty(wi.asset_name),
               expected_price |-> wi_price(wi)]]

build_missing_items ==
    LET idxs == SelectSeq([i \in 1..Len(wi_entries) |-> i],
                          LAMBDA i : i \notin matched_wi_idxs)
    IN [k \in 1..Len(idxs) |->
           LET wi == work_items[wi_entries[idxs[k]].wi]
           IN [wi |-> wi_entries[idxs[k]].wi,
               serial_number |-> OrEmpty(wi.serial_number),
               asset_name |-> OrEmpty(wi.asset_name),
               expected_price |-> wi_price(wi)]]

\* variant: the unpriced lines are annotated as well
unverified_annotations_all ==
    LET idxs == SelectSeq([i \in 1..Len(extraction.line_items) |-> i],
                          LAMBDA i : i \notin matched_po_idxs)
    IN [k \in 1..Len(idxs) |->
           [status |-> "unverified", po_idx |-> idxs[k],
            search_text |-> search_text_for(extraction.line_items[idxs[k]], NoStr)]]

unverified_annotations ==
    LET idxs == SelectSeq([i \in 1..Len(extraction.line_items) |-> i],
                          LAMBDA i : /\ i \notin matched_po_idxs
                                     /\ po_price(extraction.line_items[i]) # NoPrice)
    IN [k \in 1..Len(idxs) |->
           [status |-> "unverified", po_idx |-> idxs[k],
            search_text |-> search_text_for(extraction.line_items[idxs[k]], NoStr)]]

\* variant: the missing items do not count
final_status_mismatches_only(mm, missing) == IF mm # <<>> THEN "fail" ELSE "pass"

final_status(mm, missing) == IF mm # <<>> \/ missing # <<>> THEN "fail" ELSE "pass"

Finalize ==
    /\ pc = "finalize"
    /\ UNCHANGED sideVars
    /\ missing_items' = build_missing_items
    /\ annotations' = annotations \o unverified_annotations
    /\ status' = final_status(mismatches, missing_items')
    /\ pc' = "done"
    /\ UNCHANGED <<inputs, wi_entries, extractVars, candidates, cursor, matched_wi_idxs,
                   matched_po_idxs, checked, matched_count, mismatches, accepted>>

\* ------------------------------------------------------------------------
\* annotate_pdf (app/po_validator/annotator.py)
\* ------------------------------------------------------------------------
\* every variable of validate but its position
resultVars == <<work_items, doc, wi_entries, extractVars, candidates, cursor, matchVars,
                missing_items, status>>

OutcomeText ==
    [APPROVED |-> <<"A", "P", "P", "R", "O", "V", "E", "D">>, REJECTED |-> <<"R", "E", "J", "E", "C", "T", "E", "D">>,
     INCONCLUSIVE |-> <<"I", "N", "C", "O", "N", "C", "L", "U", "S", "I", "V", "E">>]

\* variant: the missing items are tested first
determine_outcome_missing_first(mm, missing, st, anns) ==
    IF missing # <<>> THEN "INCONCLUSIVE"
    ELSE IF mm # <<>> THEN "REJECTED"
    ELSE IF st \in {"no_pricing", "extraction_failed", "skipped"} THEN "INCONCLUSIVE"
    ELSE IF \E i \in 1..Len(anns) : anns[i].status = "unverified" THEN "INCONCLUSIVE"
    ELSE "APPROVED"

\* variant: the unverified lines do not count
determine_outcome_verified_only(mm, missing, st, anns) ==
    IF mm # <<>> THEN "REJECTED"
    ELSE IF missing # <<>> THEN "INCONCLUSIVE"
    ELSE IF st \in {"no_pricing", "extraction_failed", "skipped"} THEN "INCONCLUSIVE"
    ELSE "APPROVED"

determine_outcome(mm, missing, st, anns) ==
    IF mm # <<>> THEN "REJECTED"
    ELSE IF missing # <<>> THEN "INCONCLUSIVE"
    ELSE IF st \in {"no_pricing", "extraction_failed", "skipped"} THEN "INCONCLUSIVE"
    ELSE IF \E i \in 1..Len(anns) : anns[i].status = "unverified" THEN "INCONCLUSIVE"
    ELSE "APPROVED"

\* Path(name).stem: the final component (what follows the last separator)
\* without its last suffix; a dot that leads or ends the component starts no
\* suffix
stem(name) ==
    LET n == IF \E i \in 1..Len(name) : name[i] = "/"
             THEN LET l == CHOOSE i \in 1..Len(name) :
                              name[i] = "/" /\ \A j \in (i + 1)..Len(name) : name[j] # "/"
                  IN SubSeq(name, l + 1, Len(name))
             ELSE name
    IN IF \E i \in 2..(Len(n) - 1) : n[i] = "."
       THEN LET d == CHOOSE i \in 2..(Len(n) - 1) :
                        n[i] = "." /\ \A j \in (i + 1)..(Len(n) - 1) : n[j] # "."
            IN IF n[Len(n)] = "." THEN n ELSE SubSeq(n, 1, d - 1)
       ELSE n

output_filename(name, oc) ==
    stem(IF name = <<>> THEN <<"U", "N", "K", "N", "O", "W", "N", ".", "p", "d", "f">> ELSE name)
        \o <<"_">> \o OutcomeText[oc] \o <<".", "p", "d", "f">>

Return(b, f, p) == [bytes |-> b, filename |-> f, path |-> p]

\* fitz.open(stream=pdf_bytes): raises on bytes that are no PDF
AnnotateOpen ==
    /\ pc = "open"
    /\ IF doc.readable
       THEN doc_open' = TRUE /\ pc' = "draw"
       ELSE pc' = "annotate_raised" /\ UNCHANGED doc_open
    /\ UNCHANGED <<resultVars, document_name, stamp_open, outcome, ret, reportVars,
                   callVars>>

\* the per-line icons and the summary of the missing items; a text search or
\* a drawing call may raise
AnnotateDraw ==
    /\ pc = "draw"
    /\ \E raises \in {r \in BOOLEAN : r => annotations # <<>> \/ missing_items # <<>>} :
          pc' = IF raises THEN "annotate_raised" ELSE "stamp"
    /\ UNCHANGED <<resultVars, annotVars, reportVars, callVars>>

\* the stamp: no stamp file; stamped; a raise while the stamp document is
\* open; a raise of insert_image after it was closed
AnnotateStamp ==
    /\ pc = "stamp"
    /\ outcome' = determine_outcome(mismatches, missing_items, status, annotations)
    /\ \E stamp \in {"absent", "stamped", "raises_open", "raises_insert"} :
          /\ stamp_open' = (stamp = "raises_open")
          /\ pc' = IF stamp \in {"absent", "stamped"} THEN "serialize"
                   ELSE "annotate_raised"
    /\ UNCHANGED <<resultVars, document_name, doc_open, ret, reportVars, callVars>>

\* the file name, doc.tobytes() and doc.close()
AnnotateSerialize ==
    /\ pc = "serialize"
    /\ \E raises \in BOOLEAN :
          IF raises
          THEN pc' = "annotate_raised" /\ UNCHANGED <<doc_open, ret>>
          ELSE /\ doc_open' = FALSE
               /\ ret' = Return("annotated", output_filename(document_name, outcome),
                                "annotated")
               /\ pc' = "annotated"
    /\ UNCHANGED <<resultVars, document_name, stamp_open, outcome, reportVars, callVars>>

\* ------------------------------------------------------------------------
\* validate_and_annotate (app/po_validator/__init__.py)
\* ------------------------------------------------------------------------
\* validate has returned: print_result, then the skip test
AfterValidate ==
    /\ pc = "done"
    /\ IF status = "skipped"
       THEN ret' = Return("None", <<>>, "skipped") /\ pc' = "returned"
       ELSE pc' = "open" /\ UNCHANGED ret
    /\ UNCHANGED <<resultVars, document_name, doc_open, stamp_open, outcome, reportVars,
                   callVars>>

ReturnAnnotated ==
    /\ pc = "annotated"
    /\ pc' = "returned"
    /\ UNCHANGED <<resultVars, annotVars, reportVars, callVars>>

\* except Exception: the annotation failed
CatchAnnotate ==
    /\ pc = "annotate_raised"
    /\ ret' = Return("None", <<>>, "caught")
    /\ pc' = "returned"
    /\ UNCHANGED <<resultVars, document_name, doc_open, stamp_open, outcome, reportVars,
                   callVars>>

Next ==
    \/ ValidateEntry
    \/ QuickCheck
    \/ Tier1
    \/ Tier2
    \/ Merge
    \/ Classify
    \/ BuildCandidates
    \/ Phase1Accept
    \/ Phase2Match
    \/ Finalize

Spec == Init /\ [][Next]_vars

\* validate_and_annotate: validate, then the annotation of its result
WrapperNext ==
    \/ Next
    \/ AfterValidate
    \/ AnnotateOpen
    \/ AnnotateDraw
    \/ AnnotateStamp
    \/ AnnotateSerialize
    \/ ReturnAnnotated
    \/ CatchAnnotate

\* the documents of the annotation runs: every table of rows, with and
\* without the price-update phrase; a scanned page; bytes that are no PDF
AnnotateDocs ==
    {Doc(t, "table", FullCols, r) : t \in {TextNone, TextRequest}, r \in RowLists}
    \cup {Doc(TextNone, "image", {"sn", "price"}, <<RowA0>>), UnreadableDoc}

\* validate_and_annotate under every document name
AnnotateInit ==
    /\ work_items \in WorkItemLists
    /\ doc \in AnnotateDocs
    /\ document_name \in DocumentNames
    /\ pc = "start"
    /\ Idle
    /\ SnIdle

AnnotateSpec == AnnotateInit /\ [][WrapperNext]_vars

\* a call of extract_with_llm that can return does return
LiveSpec == AnnotateInit /\ [][WrapperNext]_vars /\ WF_vars(Tier2)

\* ------------------------------------------------------------------------
\* save_json_report (app/po_validator/reporter.py)
\* ------------------------------------------------------------------------
\* each worker makes up to MaxSaves calls; the call n of worker t passes
\* the one result <<t, n>>

ReportInit ==
    /\ work_items = <<>>
    /\ doc = UnreadableDoc
    /\ document_name = NamePlain
    /\ pc = "report"
    /\ Idle
    /\ SnIdle

\* existing = json.loads(p.read_text()) when the file exists
SaveRead(t) ==
    /\ pc = "report"
    /\ savers[t].at = "idle"
    /\ savers[t].calls < MaxSaves
    /\ savers' = [savers EXCEPT ![t].at = "read", ![t].existing = report_file]
    /\ UNCHANGED <<pc, resultVars, document_name, annotVars, report_file, saved, callVars>>

\* existing.extend(...); p.write_text(json.dumps(existing)); the call returns
SaveWrite(t) ==
    /\ pc = "report"
    /\ savers[t].at = "read"
    /\ report_file' = Append(savers[t].existing, <<t, savers[t].calls + 1>>)
    /\ saved' = saved \cup {<<t, savers[t].calls + 1>>}
    /\ savers' = [savers EXCEPT ![t].at = "idle", ![t].existing = <<>>,
                                ![t].calls = savers[t].calls + 1]
    /\ UNCHANGED <<pc, resultVars, document_name, annotVars, callVars>>

ReportNext == \E t \in Workers : SaveRead(t) \/ SaveWrite(t)

ReportSpec == ReportInit /\ [][ReportNext]_vars

\* ------------------------------------------------------------------------
\* _match_sn on its own
\* ------------------------------------------------------------------------
\* serial numbers as the two sides write them: case, dashes, spaces, leading
\* zeros, parts of one another
SerialPool ==
    {<<"A", "B", "C", "1", "2", "3">>, <<"A", "B", "C", "-", "1", "2", "3">>, <<" ", "a", "b", "c", " ", "1", "2", "3", " ">>, <<"A", "B", "C", "1", "2", "3", "4">>, <<"B", "C", "1", "2">>, <<"C", "1", "2">>,
     <<"0", "0", "1", "2", "3">>, <<"0", "1", "2", "3">>, <<"1", "2", "3">>, <<"0", "0", "0">>, <<"0">>, <<>>}

MatchInit ==
    /\ work_items = <<>>
    /\ doc = UnreadableDoc
    /\ document_name = NamePlain
    /\ pc = "match"
    /\ Idle
    /\ sn1 \in SerialPool
    /\ sn2 \in SerialPool
    /\ sn_result = "-"
    /\ UploadIdle
    /\ DrawIdle

MatchSn ==
    /\ pc = "match"
    /\ sn_result = "-"
    /\ sn_result' = IF match_sn(sn1, sn2) THEN "match" ELSE "no match"
    /\ UNCHANGED <<pc, resultVars, document_name, annotVars, reportVars, sn1, sn2,
                   run, first, uploadVars, drawVars>>

MatchSpec == MatchInit /\ [][MatchSn]_vars

\* ------------------------------------------------------------------------
\* extract_po_data, called twice on the same bytes
\* ------------------------------------------------------------------------
TwiceInit ==
    /\ work_items = <<>>
    /\ doc \in AllDocs
    /\ document_name = NamePlain
    /\ pc = "tier1"
    /\ Idle
    /\ SnIdle

\* the first call has returned or raised; the second call starts with
\* nothing kept from the first
Rerun ==
    /\ pc \in {"classify", "raised"}
    /\ run = 1
    /\ first' = [env |-> llm_env, extraction |-> extraction, pc |-> pc]
    /\ run' = 2
    /\ table_result' = NoExtraction
    /\ tier2_called' = FALSE
    /\ llm_env' = NoEnv
    /\ llm_result' = NoExtraction
    /\ extraction' = NoExtraction
    /\ pc' = "tier1"
    /\ UNCHANGED <<inputs, wi_entries, matchVars, candidates, cursor, missing_items,
                   status, document_name, annotVars, reportVars, sn1, sn2, sn_result,
                   uploadVars, drawVars>>

TwiceNext ==
    \/ Tier1
    \/ Tier2
    \/ Merge
    \/ Rerun

TwiceSpec == TwiceInit /\ [][TwiceNext]_vars



\* ------------------------------------------------------------------------
\* upload (app/api.py) with increment_filename and try_rename (app/pdf.py)
\* ------------------------------------------------------------------------
MaxAttempts == 5
RenameTries == 50
MaxSuffix == 99

Digits == <<"0", "1", "2", "3", "4", "5", "6", "7", "8", "9">>

\* f"{i}"
RECURSIVE DecStr(_)
DecStr(n) ==
    IF n < 10 THEN <<Digits[n + 1]>>
    ELSE DecStr(n \div 10) \o <<Digits[(n % 10) + 1]>>

\* f" ({i}).pdf"
NumberedSuffix(i) == <<" ", "(">> \o DecStr(i) \o <<")", ".", "p", "d", "f">>

\* str.replace: every occurrence, from the left, without overlap
RECURSIVE Replace(_, _, _)
Replace(s, old, new) ==
    IF Len(s) < Len(old) THEN s
    ELSE IF SubSeq(s, 1, Len(old)) = old
    THEN new \o Replace(SubSeq(s, Len(old) + 1, Len(s)), old, new)
    ELSE <<Head(s)>> \o Replace(Tail(s), old, new)

\* the greatest i of 99..1 whose suffix the name holds is incremented; a name
\* that holds none gets " (1)" before every ".pdf"
increment_filename(old_filename) ==
    LET held == {i \in 1..MaxSuffix : Contains(old_filename, NumberedSuffix(i))}
    IN IF held # {}
       THEN LET i == CHOOSE h \in held : \A g \in held : g <= h
            IN Replace(old_filename, NumberedSuffix(i), NumberedSuffix(i + 1))
       ELSE Replace(old_filename, <<".", "p", "d", "f">>, <<" ", "(", "1", ")", ".", "p", "d", "f">>)

\* what the file system does to the os.rename calls of one retry: the source
\* is free or locked by another process; a rename onto an existing name
\* replaces it or raises FileExistsError; a rename onto the own name is
\* accepted or raises FileExistsError
RenameEnvs == [locked : BOOLEAN, replaces : BOOLEAN, same_ok : BOOLEAN]

\* os.rename has succeeded (True), or has raised FileExistsError or another
\* exception that try_rename catches (False)
try_rename(src_path, dst_path, present, env) ==
    IF env.locked THEN FALSE
    ELSE IF dst_path = src_path THEN env.same_ok
    ELSE IF dst_path \in present THEN env.replaces
    ELSE TRUE

\* the for loop of upload over the incremented candidates
RECURSIVE rename_loop(_, _, _)
rename_loop(candidate, tries, env) ==
    IF tries = 0 THEN [renamed |-> FALSE, filepath |-> filepath]
    ELSE LET new_filename == increment_filename(candidate)
         IN IF try_rename(filepath, new_filename, files, env)
            THEN [renamed |-> TRUE, filepath |-> new_filename]
            ELSE rename_loop(new_filename, tries - 1, env)

\* the answers to an upload request: 200, the 400 of a locked document
\* version, a timeout, a 400 with another or no message, another status, an
\* exception that is not a timeout
Answers == {"200", "locked", "timeout", "400", "500", "error"}

FileNames == {<<"a", ".", "p", "d", "f">>, <<"a", ".", "P", "D", "F">>, <<"a", " ", "(", "1", ")", ".", "p", "d", "f">>, <<"a", " ", "(", "9", "9", ")", ".", "p", "d", "f">>}
OtherFiles == {<<"a", " ", "(", "1", ")", ".", "p", "d", "f">>, <<"a", " ", "(", "2", ")", ".", "p", "d", "f">>}

UploadInit ==
    /\ work_items = <<>>
    /\ doc = UnreadableDoc
    /\ document_name = NamePlain
    /\ pc = "upload"
    /\ Idle
    /\ sn1 = <<>>
    /\ sn2 = <<>>
    /\ sn_result = "-"
    /\ DrawIdle
    /\ filepath \in FileNames
    /\ files \in SUBSET (OtherFiles \cup {filepath})
    /\ attempts = 0
    /\ requests = <<>>
    /\ uploaded = [ok |-> FALSE, path |-> <<>>]

UploadQuiet ==
    UNCHANGED <<resultVars, document_name, annotVars, reportVars, sn1, sn2, sn_result,
                run, first, drawVars>>

\* path.exists(filepath)
UploadEntry ==
    /\ pc = "upload"
    /\ IF filepath \notin files
       THEN uploaded' = [ok |-> FALSE, path |-> filepath] /\ pc' = "upload_returned"
       ELSE uploaded' = uploaded /\ pc' = "request"
    /\ UNCHANGED <<filepath, attempts, requests, files>>
    /\ UploadQuiet

\* a later pass of the while loop starts with the renaming; os.rename raises
\* FileNotFoundError when the source is gone, which try_rename passes on
UploadRename ==
    /\ pc = "rename"
    /\ \/ pc' = "upload_raised" /\ UNCHANGED <<filepath, files, uploaded>>
       \/ \E env \in RenameEnvs :
             LET r == rename_loop(filepath, RenameTries, env)
             IN IF ~r.renamed
                THEN /\ uploaded' = [ok |-> FALSE, path |-> filepath]
                     /\ pc' = "upload_returned"
                     /\ UNCHANGED <<filepath, files>>
                ELSE /\ filepath' = r.filepath
                     /\ files' = (files \ {filepath}) \cup {r.filepath}
                     /\ pc' = "request"
                     /\ UNCHANGED uploaded
    /\ UNCHANGED <<attempts, requests>>
    /\ UploadQuiet

\* open(filepath), the request and the handling of its answer
UploadRequest ==
    /\ pc = "request"
    /\ \E opens \in BOOLEAN, answer \in Answers :
          IF ~opens
          THEN pc' = "upload_raised" /\ UNCHANGED <<attempts, requests, uploaded>>
          ELSE /\ requests' = Append(requests, [file_name |-> filepath, answer |-> answer])
               /\ IF answer = "error"
                  THEN pc' = "upload_raised" /\ UNCHANGED <<attempts, uploaded>>
                  ELSE IF answer = "200"
                  THEN /\ uploaded' = [ok |-> TRUE, path |-> filepath]
                       /\ pc' = "upload_returned"
                       /\ UNCHANGED attempts
                  ELSE IF answer \in {"locked", "timeout"}
                  THEN /\ attempts' = attempts + 1
                       /\ IF attempts + 1 < MaxAttempts
                          THEN pc' = "rename" /\ UNCHANGED uploaded
                          ELSE /\ uploaded' = [ok |-> FALSE, path |-> filepath]
                               /\ pc' = "upload_returned"
                  ELSE /\ uploaded' = [ok |-> FALSE, path |-> filepath]
                       /\ pc' = "upload_returned"
                       /\ UNCHANGED attempts
    /\ UNCHANGED <<filepath, files>>
    /\ UploadQuiet

UploadNext == UploadEntry \/ UploadRename \/ UploadRequest

\* the call runs on its own thread and is not suspended for ever
UploadSpec == UploadInit /\ [][UploadNext]_vars /\ WF_vars(UploadNext)

\* ------------------------------------------------------------------------
\* annotate_pdf: the positions of the icons (app/po_validator/annotator.py)
\* ------------------------------------------------------------------------
MaxAnnotations == 3

NoBbox == <<>>
NoPage == -1

\* what is printed on a page: a text between the heights y0 and y1
Span(text, y0, y1) == [text |-> text, y0 |-> y0, y1 |-> y1]
Annotation(page_number, bbox, search_text) ==
    [page_number |-> page_number, bbox |-> bbox, search_text |-> search_text]

SerialText == <<"S", "N", "-", "1">>
CaliperSix == <<"C", "a", "l", "i", "b", "r", "a", "t", "i", "o", "n", " ", "o", "f", " ", "d", "i", "g", "i", "t", "a", "l", " ", "c", "a", "l", "i", "p", "e", "r", " ", "6", " ", "i", "n">>
CaliperTwelve == <<"C", "a", "l", "i", "b", "r", "a", "t", "i", "o", "n", " ", "o", "f", " ", "d", "i", "g", "i", "t", "a", "l", " ", "c", "a", "l", "i", "p", "e", "r", " ", "1", "2", " ", "i", "n">>

\* one page with three rows; one page where the serial shares the row of a
\* description; two pages
PagePool ==
    { << <<Span(CaliperSix, 10, 20), Span(CaliperTwelve, 20, 31), Span(SerialText, 30, 40)>> >>,
      << <<Span(CaliperTwelve, 10, 20), Span(CaliperSix, 20, 31), Span(SerialText, 20, 31)>> >>,
      << <<Span(SerialText, 10, 20), Span(SerialText, 20, 31)>>,
         <<Span(SerialText, 10, 20), Span(CaliperSix, 30, 40)>> >> }

\* placed by search text, placed by the bbox (x0, y0, x1, y1; here y0, y1) of
\* a table row, on a later page, and without any position
AnnotationPool ==
    { Annotation(NoPage, NoBbox, CaliperSix),
      Annotation(0, NoBbox, CaliperTwelve),
      Annotation(NoPage, NoBbox, SerialText),
      Annotation(1, NoBbox, SerialText),
      Annotation(NoPage, <<21, 32>>, SerialText),
      Annotation(7, NoBbox, <<>>) }

\* round(y_center) of the key (page_idx, round(y_center))
row_key(y0, y1) == RoundHalfEven(y0 + y1, 2)

\* page.search_for(needle): the hits in reading order, whatever the case
search_for(spans, needle) ==
    SelectSeq(spans, LAMBDA s : Contains(lower(s.text), lower(needle)))

\* search_text[:length]
Truncated(search_text, length) ==
    SubSeq(search_text, 1, IF length < Len(search_text) THEN length ELSE Len(search_text))

\* the first hit of the whole text, then of its first 60 and 30 characters,
\* on a row that is not used: its row, or 0 for None
find_text_position(spans, search_text, used, page_idx) ==
    LET lengths == <<Len(search_text), 60, 30>>
        free(n) == SelectSeq(search_for(spans, Truncated(search_text, lengths[n])),
                             LAMBDA s : <<page_idx, row_key(s.y0, s.y1)>> \notin used)
        found == {n \in 1..3 : free(n) # <<>>}
    IN IF search_text = <<>> \/ found = {} THEN 0
       ELSE LET n == CHOOSE m \in found : \A k \in found : m <= k
            IN row_key(free(n)[1].y0, free(n)[1].y1)

DrawInit ==
    /\ work_items = <<>>
    /\ doc = UnreadableDoc
    /\ document_name = NamePlain
    /\ pc = "icons"
    /\ Idle
    /\ sn1 = <<>>
    /\ sn2 = <<>>
    /\ sn_result = "-"
    /\ UploadIdle
    /\ ann_list \in SeqsUpTo(AnnotationPool, MaxAnnotations)
    /\ page \in PagePool
    /\ ann = 1
    /\ used_positions = {}
    /\ drawn = <<>>

\* one pass of the loop over the annotations
DrawAnnotation ==
    /\ pc = "icons"
    /\ IF ann > Len(ann_list)
       THEN pc' = "icons_done" /\ UNCHANGED <<ann, used_positions, drawn>>
       ELSE LET a == ann_list[ann]
                number == IF a.page_number = NoPage THEN 0 ELSE a.page_number
                page_idx == IF number >= Len(page) THEN 0 ELSE number
                pos == find_text_position(page[page_idx + 1], a.search_text,
                                          used_positions, page_idx)
            IN /\ ann' = ann + 1
               /\ pc' = "icons"
               /\ IF a.bbox # NoBbox
                  THEN LET key == <<page_idx, row_key(a.bbox[1], a.bbox[2])>>
                       IN /\ used_positions' = used_positions \cup {key}
                          /\ drawn' = Append(drawn, [ann |-> ann, by |-> "bbox", key |-> key])
                  ELSE IF a.search_text # <<>> /\ pos # 0
                  THEN /\ used_positions' = used_positions \cup {<<page_idx, pos>>}
                       /\ drawn' = Append(drawn, [ann |-> ann, by |-> "text",
                                                  key |-> <<page_idx, pos>>])
                  ELSE UNCHANGED <<used_positions, drawn>>
    /\ UNCHANGED <<resultVars, document_name, annotVars, reportVars, sn1, sn2, sn_result,
                   run, first, uploadVars, ann_list, page>>

DrawSpec == DrawInit /\ [][DrawAnnotation]_vars

\* ------------------------------------------------------------------------
\* Properties
\* ------------------------------------------------------------------------
PriceOf(k) == po_price(extraction.line_items[accepted[k].po_idx])
ExpectedOf(k) == wi_price(work_items[wi_entries[accepted[k].wi_idx].wi])
AcceptedAnnotations == SelectSeq(annotations, LAMBDA a : a.status \in {"ok", "mismatch"})
MatchedWorkItems == {wi_entries[accepted[k].wi_idx].wi : k \in 1..Len(accepted)}
MissingWorkItems == {missing_items[k].wi : k \in 1..Len(missing_items)}
CentsApart(a, b) == IF a >= b THEN a - b ELSE b - a

\* C1: the accepted matches (the "ok" annotations and the PriceMismatch
\* records, of both phases) are injective: no work-item index and no PO-line
\* index takes part in more than one accepted match
MatchingIsInjective ==
    /\ Len(AcceptedAnnotations) = Len(accepted)
    /\ \A k \in 1..Len(accepted) :
          /\ AcceptedAnnotations[k].po_idx = accepted[k].po_idx
          /\ (AcceptedAnnotations[k].status = "ok") = accepted[k].ok
    /\ Len(mismatches) = Cardinality({k \in 1..Len(accepted) : ~accepted[k].ok})
    /\ \A k \in 1..Len(mismatches) :
          \E a \in 1..Len(accepted) :
              ~accepted[a].ok /\ accepted[a].wi_idx = mismatches[k].wi_idx
    /\ \A i, j \in 1..Len(accepted) :
          i # j => /\ accepted[i].wi_idx # accepted[j].wi_idx
                   /\ accepted[i].po_idx # accepted[j].po_idx

\* a result with a phase-1 and a phase-2 match, where phase 1 turned down a
\* candidate whose work item or PO line was taken
MatchingIsInjectiveWitness ==
    /\ pc = "done"
    /\ \E i, j \in 1..Len(accepted) : accepted[i].phase = 1 /\ accepted[j].phase = 2
    /\ Len(candidates) > Cardinality({k \in 1..Len(accepted) : accepted[k].phase = 1})

\* C2: when matching is reached, the missing work items and the matched work
\* items are disjoint and together are all the input work items
Completeness ==
    (pc = "done" /\ status \in {"pass", "fail"}) =>
        /\ MatchedWorkItems \cap MissingWorkItems = {}
        /\ MatchedWorkItems \cup MissingWorkItems = 1..Len(work_items)

\* C3: in a returned result, a mismatch or a missing item gives "fail"; none
\* of either, with a price on an extracted PO line, gives "pass"; and "pass"
\* has no mismatch and no missing item
StatusMonotonicity ==
    pc = "done" =>
        /\ (mismatches # <<>> \/ missing_items # <<>>) => status = "fail"
        /\ ( /\ mismatches = <<>>
             /\ missing_items = <<>>
             /\ \E i \in 1..Len(extraction.line_items) :
                   po_price(extraction.line_items[i]) # NoPrice ) => status = "pass"
        /\ status = "pass" => mismatches = <<>> /\ missing_items = <<>>

\* a result that fails on a missing item alone, beside an accepted match
StatusMonotonicityWitness ==
    /\ pc = "done"
    /\ status = "fail"
    /\ mismatches = <<>>
    /\ missing_items # <<>>
    /\ accepted # <<>>

\* C4: "pass" is returned only when every input work item was matched to a
\* PO line within tolerance, so that line_items_matched is the number of
\* input work items
PassMeansAllMatched ==
    (pc = "done" /\ status = "pass") =>
        /\ matched_count = Len(work_items)
        /\ \A w \in 1..Len(work_items) :
              \E k \in 1..Len(accepted) :
                  /\ wi_entries[accepted[k].wi_idx].wi = w
                  /\ CentsApart(PriceOf(k), ExpectedOf(k)) <= PRICE_TOLERANCE

\* C5: an accepted match is "ok" exactly when |po_price - expected_price| is
\* at most 0.01, and line_items_matched counts the "ok" matches
ToleranceBoundary ==
    /\ \A k \in 1..Len(accepted) :
          accepted[k].ok = (CentsApart(PriceOf(k), ExpectedOf(k)) <= PRICE_TOLERANCE)
    /\ pc \in {"phase1", "phase2", "finalize"} =>
          matched_count = Cardinality({k \in 1..Len(accepted) : accepted[k].ok})

\* C6: a first page with both phrases gives "skipped" and no annotation, for
\* every work_items input
SkipsPriceUpdateRequest ==
    (pc = "done" /\ doc.readable /\ is_price_update_request(PageText(doc))) =>
        status = "skipped" /\ annotations = <<>>

\* C7: for a document not skipped and work items not empty, the result is
\* "extraction_failed" exactly when no line item was extracted, "no_pricing"
\* exactly when there are line items and none has a unit or extended price;
\* a price of 0.00 is a price, and the PO goes on to matching
ClassificationByPrices ==
    (pc = "done" /\ work_items # <<>> /\ status # "skipped") =>
        LET items == extraction.line_items
            priced == {i \in 1..Len(items) :
                          items[i].unit_price # NoPrice \/ items[i].extended_price # NoPrice}
        IN /\ (status = "extraction_failed") = (items = <<>>)
           /\ (status = "no_pricing") = (items # <<>> /\ priced = {})
           /\ priced # {} => status \in {"pass", "fail"}

\* a PO whose only prices are 0.00 went through matching
ClassificationByPricesWitness ==
    /\ pc = "done"
    /\ status \in {"pass", "fail"}
    /\ accepted # <<>>
    /\ \A i \in 1..Len(extraction.line_items) :
          /\ extraction.line_items[i].unit_price \in {0, NoPrice}
          /\ extraction.line_items[i].extended_price \in {0, NoPrice}

\* C8: validate raises no exception, whatever the PDF and the tier-2 outcome
NeverRaises == pc # "raised"

\* C9: extract_with_llm returns None, without raising, when the API key is
\* absent, the rendering fails, the API call fails, or the response is not JSON
LlmFailsSoft ==
    ( /\ pc \in {"merge", "raised"}
      /\ \/ ~llm_env.api_key
         \/ ~llm_env.render_ok
         \/ ~llm_env.api_ok
         \/ llm_env.response = "bad_json" ) =>
        pc = "merge" /\ llm_result = NoExtraction

\* the last of the four cases: key, rendering and API call fine, no JSON
LlmFailsSoftWitness ==
    /\ pc = "merge"
    /\ llm_env = LlmEnv(TRUE, TRUE, TRUE, "bad_json")
    /\ llm_result = NoExtraction

\* C10: tier 1 runs first; tier 2 is called exactly when tier 1 returned
\* nothing or a confidence below 0.7; a tier-1 result of confidence >= 0.7 is
\* returned unchanged; a result of method "text" or "none" follows a tier-2
\* attempt without line items
TierOrder ==
    /\ tier2_called => pc \notin {"start", "quick", "tier1"}
    /\ pc \in {"tier2", "merge", "raised", "classify"} =>
          table_result = extract_with_pdfplumber(doc)
    /\ pc \in {"merge", "raised", "classify"} =>
          /\ tier2_called =
                (table_result = NoExtraction \/ table_result.confidence < CONFIDENCE_THRESHOLD)
          /\ ~tier2_called => pc = "classify" /\ extraction = table_result
    /\ (pc = "classify" /\ extraction.extraction_method \in {"text", "none"}) =>
          /\ tier2_called
          /\ llm_result = NoExtraction \/ llm_result.line_items = <<>>

\* the text fallback returned after a tier-2 attempt
TierOrderWitness ==
    /\ pc = "classify"
    /\ tier2_called
    /\ extraction.extraction_method = "text"
    /\ llm_env.api_key

\* C11: extract_po_data never returns None; below the threshold its result
\* is the tier-2 extraction carrying tier-1's raw text when tier 2 returned a
\* line item, else tier-1's own result when there is one, else an extraction
\* with no line items, confidence 0 and method "none"
OrchestratorResult ==
    pc = "classify" =>
        /\ extraction # NoExtraction
        /\ tier2_called =>
              IF llm_result # NoExtraction /\ Len(llm_result.line_items) >= 1
              THEN /\ extraction.line_items = llm_result.line_items
                   /\ extraction.confidence = llm_result.confidence
                   /\ extraction.extraction_method = "llm"
                   /\ extraction.raw_text =
                         IF table_result = NoExtraction THEN <<>>
                         ELSE table_result.raw_text
              ELSE IF table_result # NoExtraction
              THEN extraction = table_result
              ELSE /\ extraction.line_items = <<>>
                   /\ extraction.confidence = 0
                   /\ extraction.extraction_method = "none"

\* a tier-2 result returned with the raw text of tier 1
OrchestratorResultWitness ==
    /\ pc = "classify"
    /\ tier2_called
    /\ extraction.extraction_method = "llm"
    /\ extraction.raw_text # <<>>
    /\ extraction.raw_text = table_result.raw_text

\* the stems of the names of DocumentNames, written out
ExpectedStem ==
    IF document_name = NamePlain THEN <<"P", "O", "-", "1", "0", "0", "1">>
    ELSE IF document_name = <<"s", "c", "a", "n", "s", "/", "p", "o", ".", "v", "2", ".", "p", "d", "f">> THEN <<"p", "o", ".", "v", "2">>
    ELSE IF document_name = <<"P", "O", "7">> THEN <<"P", "O", "7">>
    ELSE <<>>

OutcomeAsClaimed ==
    /\ outcome = "REJECTED" <=> mismatches # <<>>
    /\ outcome = "INCONCLUSIVE" <=>
          /\ mismatches = <<>>
          /\ \/ missing_items # <<>>
             \/ status \in {"no_pricing", "extraction_failed", "skipped"}
             \/ \E i \in 1..Len(annotations) : annotations[i].status = "unverified"
    /\ outcome = "APPROVED" <=>
          /\ mismatches = <<>>
          /\ missing_items = <<>>
          /\ status \notin {"no_pricing", "extraction_failed", "skipped"}
          /\ \A i \in 1..Len(annotations) : annotations[i].status # "unverified"

\* C12 (as stated): the outcome of annotate_pdf is REJECTED when the result
\* has a mismatch, otherwise INCONCLUSIVE when a work item is missing, the
\* status is no_pricing, extraction_failed or skipped, or an annotation is
\* unverified, otherwise APPROVED; the returned file name is the stem of
\* document_name, then "_", the outcome and ".pdf".
OutcomeAndFilename ==
    /\ pc \in {"serialize", "annotated"} => OutcomeAsClaimed
    /\ pc = "annotated" =>
          ret.filename = ExpectedStem \o <<"_">> \o OutcomeText[outcome] \o <<".", "p", "d", "f">>

\* C12 (amended): the same outcome; the file name is built from the stem of
\* document_name, and from "UNKNOWN" when document_name is empty.
OutcomeAndFilenameOrUnknown ==
    /\ pc \in {"serialize", "annotated"} => OutcomeAsClaimed
    /\ pc = "annotated" =>
          ret.filename =
              (IF document_name = <<>> THEN <<"U", "N", "K", "N", "O", "W", "N">> ELSE ExpectedStem)
                  \o <<"_">> \o OutcomeText[outcome] \o <<".", "p", "d", "f">>

\* an empty document name reached the file name; a line left unverified
\* made a passing result inconclusive
OutcomeAndFilenameWitness ==
    /\ pc = "annotated"
    /\ document_name = <<>>
    /\ status = "pass"
    /\ outcome = "INCONCLUSIVE"
    /\ ret.filename = <<"U", "N", "K", "N", "O", "W", "N", "_", "I", "N", "C", "O", "N", "C", "L", "U", "S", "I", "V", "E", ".", "p", "d", "f">>

\* C13: when control leaves annotate_pdf, by return or by an exception, the
\* document it opened and the stamp document are closed.
HandlesReleased ==
    pc \in {"annotated", "annotate_raised"} => ~doc_open /\ ~stamp_open

AnnotatePositions == {"open", "draw", "stamp", "serialize", "annotated", "annotate_raised"}

\* what validate_and_annotate hands back, case by case
ReturnsAsClaimed ==
    /\ pc \in AnnotatePositions => status \notin {"-", "skipped"}
    /\ pc = "returned" =>
          /\ status # "-"
          /\ status = "skipped" =>
                ret.bytes = "None" /\ ret.filename = <<>> /\ outcome = "-" /\ ~doc_open
          /\ ret.path = "caught" => ret.bytes = "None" /\ ret.filename = <<>>
          /\ status # "skipped" /\ ret.path # "caught" =>
                /\ ret.bytes = "annotated"
                /\ ret.filename = output_filename(document_name, outcome)

\* C14: validate_and_annotate runs validate before it annotates and always
\* returns the result: no exception leaves it; a skipped result is returned
\* with (None, "") and without a call of the annotator; an exception of
\* annotate_pdf gives (None, ""); otherwise the annotated bytes and file
\* name are returned.
AlwaysReturnsResult ==
    /\ pc # "raised"
    /\ ReturnsAsClaimed

\* C15: the tier-2 request is bounded in time: once extract_po_data has
\* reached the tier-2 call it eventually returns (to the choice between the
\* two results) or raises, also when the service never answers. In the
\* position "blocked" the caller waits in generate_content, which was given
\* no timeout, for an answer that does not come.
Tier2CallReturns == (pc = "tier2") ~> (pc \in {"merge", "raised"})

\* C16: the report file holds every result passed to a completed call of
\* save_json_report, whatever the interleaving of the workers' calls.
ReportAppendOnly ==
    \A r \in saved : \E i \in 1..Len(report_file) : report_file[i] = r

\* C17: every PriceMismatch belongs to an accepted match whose prices differ
\* by more than the tolerance of 0.01, and its difference is po_price -
\* expected_price with its sign; expected 50.00 against 75.00 on the PO
\* gives the difference 25.00 and the status "fail".
MismatchBeyondTolerance ==
    /\ \A k \in 1..Len(mismatches) :
          /\ \E a \in 1..Len(accepted) :
                /\ ~accepted[a].ok
                /\ accepted[a].wi_idx = mismatches[k].wi_idx
                /\ PriceOf(a) = mismatches[k].po_price
                /\ ExpectedOf(a) = mismatches[k].expected_price
          /\ CentsApart(mismatches[k].po_price, mismatches[k].expected_price)
                > PRICE_TOLERANCE
          /\ mismatches[k].difference
                = mismatches[k].po_price - mismatches[k].expected_price
          /\ (mismatches[k].expected_price = 5000 /\ mismatches[k].po_price = 7500) =>
                mismatches[k].difference = 2500
    /\ pc = "done" /\ mismatches # <<>> => status = "fail"

\* C18: no line item that tier 1 produced carries a serial number of the
\* shape of an IP address, whichever path supplied the serial.
NoIpSerial ==
    table_result # NoExtraction =>
        \A i \in 1..Len(table_result.line_items) :
            ~IsIpAddress(table_result.line_items[i].serial_number)

\* the wording of the rule, on the strings as written
Folded(s) == SelectSeq(upper(s), LAMBDA ch : ch # "-" /\ ch # " ")
LeadingZeros(s) == Cardinality({i \in 1..Len(s) : \A j \in 1..i : s[j] = "0"})
WithoutLeadingZeros(s) == SubSeq(s, LeadingZeros(s) + 1, Len(s))
OccursIn(a, b) ==
    \E k \in 0..(Len(b) - Len(a)) : \A i \in 1..Len(a) : b[k + i] = a[i]
MatchAsStated(x, y) ==
    LET a == Folded(x)
        b == Folded(y)
    IN \/ a = b
       \/ WithoutLeadingZeros(a) = WithoutLeadingZeros(b)
       \/ Len(a) >= 4 /\ Len(b) >= 4 /\ (OccursIn(a, b) \/ OccursIn(b, a))

AfterPhase1 == pc \in {"phase2", "finalize", "done"}
Phase1Accepted == {k \in 1..Len(accepted) : accepted[k].phase = 1}
\* work-item entry w and PO line p match by serial number and both carry a price
PlausiblePair(w, p) ==
    LET wi == work_items[wi_entries[w].wi]
        item == extraction.line_items[p]
    IN /\ Truthy(item.serial_number)
       /\ MatchAsStated(item.serial_number, wi.serial_number)
       /\ wi_price(wi) # NoPrice
       /\ po_price(item) # NoPrice
PairApart(w, p) ==
    CentsApart(po_price(extraction.line_items[p]), wi_price(work_items[wi_entries[w].wi]))

\* C21: phase 1 accepts in ascending order of the absolute price difference:
\* after phase 1 every pair matching by serial number, priced on both sides
\* and not accepted, shares its work item or its PO line with an accepted
\* phase-1 match whose absolute difference is no larger.
Phase1ClosestFirst ==
    AfterPhase1 =>
        /\ \A j, k \in Phase1Accepted :
              j < k => CentsApart(PriceOf(j), ExpectedOf(j)) <= CentsApart(PriceOf(k), ExpectedOf(k))
        /\ \A w \in 1..Len(wi_entries) : \A p \in 1..Len(extraction.line_items) :
              (/\ PlausiblePair(w, p)
               /\ ~\E k \in Phase1Accepted :
                      accepted[k].wi_idx = w /\ accepted[k].po_idx = p) =>
                  \E k \in Phase1Accepted :
                      /\ accepted[k].wi_idx = w \/ accepted[k].po_idx = p
                      /\ CentsApart(PriceOf(k), ExpectedOf(k)) <= PairApart(w, p)

\* a work item met two lines of its serial number and took the closer one,
\* which comes second on the PO
Phase1ClosestFirstWitness ==
    /\ pc = "phase2"
    /\ \E k \in Phase1Accepted :
          /\ accepted[k].po_idx = 2
          /\ PlausiblePair(accepted[k].wi_idx, 1)
          /\ PairApart(accepted[k].wi_idx, 1) > CentsApart(PriceOf(k), ExpectedOf(k))
          /\ 1 \notin matched_po_idxs

\* the PO lines claimed before the k-th accepted match
ClaimedBefore(k) == {accepted[j].po_idx : j \in 1..(k - 1)}

\* C22: phase 2 matches a work item only if its serial number (also without
\* a parenthetical suffix) or its asset name occurs in the raw text or in
\* the description of a PO line that is still unmatched at that moment; the
\* description of a line matched before does not count.
Phase2EligibleByUnmatchedLine ==
    \A k \in 1..Len(accepted) :
        accepted[k].phase = 2 =>
            LET wi == work_items[wi_entries[accepted[k].wi_idx].wi]
            IN \/ occurs_in(wi, extraction.raw_text)
               \/ \E i \in 1..Len(extraction.line_items) :
                     /\ i \notin ClaimedBefore(k)
                     /\ occurs_in(wi, OrEmpty(extraction.line_items[i].description))

LinePriced(i) == po_price(extraction.line_items[i]) # NoPrice
LineApart(i, expected) == CentsApart(po_price(extraction.line_items[i]), expected)

WentThroughMatching == pc = "done" /\ status \in {"pass", "fail"}
AnnotationsOf(i, kinds) ==
    {a \in 1..Len(annotations) : annotations[a].po_idx = i /\ annotations[a].status \in kinds}

\* C24: in a result that went through matching, a PO line that carries a
\* price and is in no accepted match has exactly one "unverified" annotation;
\* a matched line and an unpriced line have none; and no PO line is the
\* target of more than one annotation.
UnverifiedExactlyOnce ==
    WentThroughMatching =>
        \A i \in 1..Len(extraction.line_items) :
            LET matched == \E k \in 1..Len(accepted) : accepted[k].po_idx = i
            IN /\ Cardinality(AnnotationsOf(i, {"unverified"}))
                    = IF LinePriced(i) /\ ~matched THEN 1 ELSE 0
               /\ Cardinality(AnnotationsOf(i, {"ok", "mismatch", "missing", "unverified"})) <= 1

\* one line was matched and another priced line was left unverified
UnverifiedExactlyOnceWitness ==
    /\ WentThroughMatching
    /\ Len(accepted) = 1
    /\ \E i \in 1..Len(extraction.line_items) :
          /\ LinePriced(i)
          /\ i # accepted[1].po_idx
          /\ Cardinality(AnnotationsOf(i, {"unverified"})) = 1
    /\ \E i \in 1..Len(extraction.line_items) : ~LinePriced(i)

AnnotationsWith(kind) == {a \in 1..Len(annotations) : annotations[a].status = kind}

\* C27: in a result that went through matching, line_items_checked is the
\* number of accepted matches and is line_items_matched + len(mismatches);
\* line_items_matched is the number of "ok" annotations and len(mismatches)
\* the number of "mismatch" annotations; line_items_checked exceeds neither
\* work_items_total nor po_line_items_total.
CountersAgree ==
    WentThroughMatching =>
        /\ checked = Len(accepted)
        /\ checked = matched_count + Len(mismatches)
        /\ matched_count = Cardinality(AnnotationsWith("ok"))
        /\ Len(mismatches) = Cardinality(AnnotationsWith("mismatch"))
        /\ checked <= Len(work_items)
        /\ checked <= Len(extraction.line_items)

\* two matches were accepted, one within tolerance and one beyond it
CountersAgreeWitness ==
    /\ WentThroughMatching
    /\ checked = 2
    /\ matched_count = 1
    /\ Len(mismatches) = 1

MatchedWithinTolerance(i) ==
    \E k \in 1..Len(accepted) : accepted[k].po_idx = i /\ accepted[k].ok

\* C28: when annotate_pdf has determined the outcome of a result of validate,
\* the outcome is APPROVED only if the status is "pass" and every PO line
\* item that carries a price was matched to a work item within tolerance;
\* and a result with both mismatches and missing items is REJECTED.
ApprovedOnlyWhenAllVerified ==
    pc \in {"serialize", "annotated"} =>
        /\ outcome = "APPROVED" =>
              /\ status = "pass"
              /\ \A i \in 1..Len(extraction.line_items) :
                    LinePriced(i) => MatchedWithinTolerance(i)
        /\ (mismatches # <<>> /\ missing_items # <<>>) => outcome = "REJECTED"

\* a PO whose priced lines were all matched within tolerance was approved
ApprovedOnlyWhenAllVerifiedWitness ==
    /\ pc = "annotated"
    /\ outcome = "APPROVED"
    /\ accepted # <<>>
    /\ \E i \in 1..Len(extraction.line_items) : LinePriced(i)

\* C29: every accepted match, of phase 1 or of phase 2, pairs a work item
\* with a PO line whose serial number, when the line has one, fuzzy-matches
\* the serial number of the work item.
AcceptedSerialsAgree ==
    \A k \in 1..Len(accepted) :
        LET item == extraction.line_items[accepted[k].po_idx]
            wi == work_items[wi_entries[accepted[k].wi_idx].wi]
        IN Truthy(item.serial_number) =>
              MatchAsStated(item.serial_number, wi.serial_number)

Unpriced(i) ==
    /\ Truthy(work_items[i].serial_number)
    /\ work_items[i].service_charge = NoPrice
    /\ work_items[i].service_total = NoPrice
NeverMatched(i) ==
    \A k \in 1..Len(accepted) : wi_entries[accepted[k].wi_idx].wi # i
ReportedMissing(i) ==
    \E m \in 1..Len(missing_items) :
        missing_items[m].wi = i /\ missing_items[m].expected_price = NoPrice

\* C30 (as stated): a work item with a serial number and neither a
\* service_charge nor a service_total is never matched, whatever the PO
\* contains; it is in missing_items with a null expected price and the
\* status of the result is "fail".
UnpricedItemFails ==
    \A i \in 1..Len(work_items) :
        Unpriced(i) =>
            /\ NeverMatched(i)
            /\ pc = "done" => (ReportedMissing(i) /\ status = "fail")

\* C30 (amended): such a work item is never matched; in a result that went
\* through matching it is in missing_items with a null expected price and
\* the status is "fail".
UnpricedItemFailsAfterMatching ==
    \A i \in 1..Len(work_items) :
        Unpriced(i) =>
            /\ NeverMatched(i)
            /\ WentThroughMatching => (ReportedMissing(i) /\ status = "fail")

\* a priced PO line matched the other work item within tolerance, and the
\* unpriced work item was reported missing
UnpricedItemFailsAfterMatchingWitness ==
    /\ WentThroughMatching
    /\ \E i \in 1..Len(work_items) : Unpriced(i) /\ ReportedMissing(i)
    /\ mismatches = <<>>
    /\ accepted # <<>>

RECURSIVE IncrementTimes(_, _)
IncrementTimes(name, n) ==
    IF n = 0 THEN name ELSE increment_filename(IncrementTimes(name, n - 1))
IsIncrementOf(new, old) ==
    new # old /\ \E j \in 1..RenameTries : IncrementTimes(old, j) = new
Answered(k, answers) == requests[k].answer \in answers
UploadOver == pc \in {"upload_returned", "upload_raised"}

\* at most 5 requests
UploadBounded == Len(requests) <= MaxAttempts
\* each request but the first follows a locked answer or a timeout and
\* carries a name incremented from the name of the request before it
UploadRenamesBetween ==
    \A k \in 2..Len(requests) :
        /\ Answered(k - 1, {"locked", "timeout"})
        /\ IsIncrementOf(requests[k].file_name, requests[k - 1].file_name)
\* (True, path) exactly when a request was answered 200; (False, path) after
\* any other answer and after the fifth failed attempt
UploadReturns ==
    /\ pc = "upload_returned" =>
          /\ uploaded.ok = (\E k \in 1..Len(requests) : Answered(k, {"200"}))
          /\ uploaded.path = filepath
    /\ \A k \in 1..Len(requests) :
          \/ Answered(k, {"200"}) /\ pc = "upload_returned" /\ uploaded.ok
          \/ Answered(k, {"400", "500"}) /\ pc = "upload_returned" /\ ~uploaded.ok
          \/ Answered(k, {"error"}) /\ pc = "upload_raised"
          \/ Answered(k, {"locked", "timeout"})
             /\ (k = MaxAttempts => pc = "upload_returned" /\ ~uploaded.ok)

\* C26: a call of upload ends after at most 5 upload requests; after each
\* answer "document version is locked" and each timeout the file is renamed
\* to an incremented name before the next request; it returns (True, path)
\* exactly when a request was answered 200, and (False, path) after any
\* other answer and after the fifth failed attempt.
UploadAsClaimed ==
    /\ [](UploadBounded /\ UploadRenamesBetween /\ UploadReturns)
    /\ <>UploadOver

PageOf(a) ==
    LET number == IF ann_list[a].page_number = NoPage THEN 0 ELSE ann_list[a].page_number
    IN IF number >= Len(page) THEN 0 ELSE number
\* the rows that hold the whole search text of annotation a, in reading order
OccurrenceRows(a) ==
    LET hits == search_for(page[PageOf(a) + 1], ann_list[a].search_text)
    IN [h \in 1..Len(hits) |-> row_key(hits[h].y0, hits[h].y1)]
OccurrenceAt(a, row) == CHOOSE h \in 1..Len(OccurrenceRows(a)) : OccurrenceRows(a)[h] = row
ByText(d) == drawn[d].by = "text"
UsedBefore(a) == {drawn[d].key : d \in {e \in 1..Len(drawn) : drawn[e].ann < a}}
TextPositioned(a) == ann_list[a].bbox = NoBbox /\ ann_list[a].search_text # <<>>

\* C25: no two annotations placed by text search are drawn on the same
\* (page, rounded row centre); an annotation placed by text search is not
\* drawn on a row that an earlier bbox annotation used; annotations with the
\* same search text are drawn on successive occurrences of that text; and an
\* annotation whose text has no free occurrence is skipped.
IconsOnSuccessiveOccurrences ==
    /\ \A d, e \in 1..Len(drawn) :
          (d < e /\ ByText(e)) => drawn[d].key # drawn[e].key
    /\ \A d, e \in 1..Len(drawn) :
          (/\ d < e /\ ByText(d) /\ ByText(e)
           /\ ann_list[drawn[d].ann].search_text = ann_list[drawn[e].ann].search_text
           /\ PageOf(drawn[d].ann) = PageOf(drawn[e].ann))
          => /\ \E h \in 1..Len(OccurrenceRows(drawn[d].ann)) :
                   OccurrenceRows(drawn[d].ann)[h] = drawn[d].key[2]
             /\ \E h \in 1..Len(OccurrenceRows(drawn[e].ann)) :
                   OccurrenceRows(drawn[e].ann)[h] = drawn[e].key[2]
             /\ OccurrenceAt(drawn[d].ann, drawn[d].key[2])
                   < OccurrenceAt(drawn[e].ann, drawn[e].key[2])
    /\ \A a \in 1..(ann - 1) :
          (/\ TextPositioned(a)
           /\ \A h \in 1..Len(OccurrenceRows(a)) :
                 <<PageOf(a), OccurrenceRows(a)[h]>> \in UsedBefore(a))
          => \A d \in 1..Len(drawn) : drawn[d].ann # a

====
